---- MODULE Spec2Model ----
(***************************************************************************)
(* A model of tracing-configuration: resolution of a declarative Writer    *)
(* into a sink (MakeWriter) and a Guard, the Subscriber entry points that  *)
(* assemble a pipeline around it, the writers handed out by make_writer,   *)
(* and the delivery queue that a NonBlocking configuration puts in front   *)
(* of a File or Rolling destination.                                       *)
(***************************************************************************)
EXTENDS Integers, Sequences, FiniteSets, TLC

VARIABLES
    config,     \* the Subscriber configuration the calls are made with
    dirs,       \* file system: directory name -> "writable" | "readonly" | "absent"
    files,      \* file system: file path -> [exists, data]
    stdout,     \* bytes written to the process's standard output
    stderr,     \* bytes written to the process's standard error
    arcs,       \* heap of Arc<io::Error> allocations, indexed by identity
    workers,    \* delivery workers started by NonBlocking::build
    calls,      \* the outcome of every entry-point call made so far
    writer,     \* the writer most recently handed out by make_writer
    nops,       \* number of write/flush calls made
    last,       \* the most recent write/flush call and what it returned
    results,    \* per call: the set of write/flush results observed on its writers
    producers,  \* per producer thread: records written so far, and whether it is suspended
    guards,     \* per call: whether its Guard is held, being dropped, or dropped
    clock,      \* the wall clock, in minutes
    appender,   \* the rolling appender: its configuration, active log file and log files
    format,     \* the Format configuration being converted
    components, \* the field and event formatters built from it
    rendered,   \* the timestamps the built timer has rendered
    input,      \* the string given to a from_str
    parsed,     \* what the from_str returned
    filter,     \* the Filter being assembled from directives
    env_filter  \* the EnvFilter made from it

\* The rolling appender and its clock.
rollingVars == <<clock, appender>>

\* The formatter configuration and what is built from it.
formatVars == <<format, components, rendered>>

\* What is made from text: a parse and its result, a Filter and its EnvFilter.
parseVars == <<input, parsed, filter, env_filter>>

vars == <<config, dirs, files, stdout, stderr, arcs, workers, calls, writer,
          nops, last, results, producers, guards, clock, appender, format,
          components, rendered, input, parsed, filter, env_filter>>

---------------------------------------------------------------------------
(* Bounds of the model *)

MaxCalls == 2
MaxSinks == 2
MaxOps == 2
MaxRecords == 3
MaxTicks == 4
MaxRollWrites == 4

---------------------------------------------------------------------------
(* Option<T> *)

NoneV == [tag |-> "None"]
Some(x) == [tag |-> "Some", v |-> x]
IsSome(o) == o.tag = "Some"

---------------------------------------------------------------------------
(* The file system the program runs against *)

DirNames == {"logs", "ro", "ro/sub", "fresh"}

\* Whether create_dir_all can create the directory when it is absent.
ParentWritable(d) == d \in {"logs", "ro", "fresh"}

Path(d, n) == [dir |-> d, name |-> n]

\* PathBuf::new(): the empty path, which names no file
EmptyPath == Path("", "")

FilePaths == {Path("logs", "old.log"), Path("logs", "new.log"),
              Path("ro", "app.log"), Path("ro/sub", "app.log")}

\* The file a RollingFileAppender writes in a directory (one time bucket).
RollingFile(d) == Path(d, "rolling")

AllFiles == FilePaths \cup {RollingFile(d) : d \in DirNames}

InitDirs == [d \in DirNames |->
                CASE d = "logs" -> "writable"
                  [] d = "ro" -> "readonly"
                  [] OTHER -> "absent"]

InitFiles == [p \in AllFiles |->
                IF p = Path("logs", "old.log")
                THEN [exists |-> TRUE, data |-> <<"o">>]
                ELSE [exists |-> FALSE, data |-> <<>>]]

Bufs == {<<"a">>, <<"b", "c">>}

---------------------------------------------------------------------------
(* Configuration values (lib.rs) *)

BackpressureBehaviours == {"Drop", "Block"}
FileOpenBehaviours == {"Truncate", "Append"}

\* lib.rs NonBlocking { buffer_length, behaviour }
NonBlockingConfigs ==
    {[buffer_length |-> NoneV, behaviour |-> NoneV],
     [buffer_length |-> Some(1), behaviour |-> Some("Block")],
     [buffer_length |-> Some(1), behaviour |-> Some("Drop")]}

OptNonBlocking == {NoneV} \cup {Some(nb) : nb \in NonBlockingConfigs}

\* lib.rs Roll { limit, prefix, suffix, rotation }
RollConfigs ==
    {[limit |-> NoneV, prefix |-> NoneV, suffix |-> NoneV, rotation |-> NoneV]}

OptRoll == {NoneV} \cup {Some(r) : r \in RollConfigs}

\* lib.rs Writer
WriterConfigs ==
    {[tag |-> "Null"], [tag |-> "Stdout"], [tag |-> "Stderr"]}
    \cup {[tag |-> "File", path |-> p, behaviour |-> b, non_blocking |-> nb] :
            p \in FilePaths, b \in FileOpenBehaviours, nb \in OptNonBlocking}
    \cup {[tag |-> "Rolling", directory |-> d, roll |-> r, non_blocking |-> nb] :
            d \in DirNames, r \in OptRoll, nb \in OptNonBlocking}

\* impl Default for Writer: #[default] Stdout
WriterDefault == [tag |-> "Stdout"]

\* impl Default for Rotation: #[default] Never
RotationDefault == "Never"

\* impl Default for Roll
RollDefault == [limit |-> NoneV, prefix |-> NoneV, suffix |-> NoneV, rotation |-> NoneV]

\* lib.rs Subscriber { format, writer, filter }; only the writer decides resolution
SubscriberConfigs == {[writer |-> w] : w \in {NoneV} \cup {Some(w) : w \in WriterConfigs}}

UnwrapOr(o, d) == IF IsSome(o) THEN o.v ELSE d

---------------------------------------------------------------------------
(* The environment a resolution reads and changes *)

Env == [dirs |-> dirs, files |-> files, arcs |-> arcs, workers |-> workers,
        stdout |-> stdout, stderr |-> stderr]

IoOk == [tag |-> "Ok"]
IoErr(k) == [tag |-> "Err", kind |-> k]

\* open(2) of a regular file for writing, with or without O_CREAT
OpenOutcome(path, create, env) ==
    IF path = EmptyPath THEN IoErr("NotFound")
    ELSE IF env.dirs[path.dir] = "absent" THEN IoErr("NotFound")
    ELSE IF env.files[path].exists THEN IoOk
    ELSE IF ~create THEN IoErr("NotFound")
    ELSE IF env.dirs[path.dir] = "readonly" THEN IoErr("PermissionDenied")
    ELSE IoOk

\* File::create(&path): write + create + truncate
FileCreate(path, env) ==
    LET r == OpenOutcome(path, TRUE, env) IN
    [res |-> r,
     env |-> IF r.tag = "Ok"
             THEN [env EXCEPT !.files[path] = [exists |-> TRUE, data |-> <<>>]]
             ELSE env]

\* File::options().append(true).open(&path): no create(true), the file must exist
FileOpenAppend(path, env) ==
    [res |-> OpenOutcome(path, FALSE, env), env |-> env]

\* RollingFileAppender::builder()...build(&directory): opens the bucket's log file
\* with append + create, creating the directory when the first open fails.
RollingBuild(directory, env) ==
    LET f == RollingFile(directory)
        first == OpenOutcome(f, TRUE, env)
        made == IF env.dirs[directory] = "absent" /\ ParentWritable(directory)
                THEN [env EXCEPT !.dirs[directory] = "writable"]
                ELSE env
        second == OpenOutcome(f, TRUE, made)
        created(e) == [e EXCEPT !.files[f] = [exists |-> TRUE, data |-> e.files[f].data]]
    IN  IF first.tag = "Ok" THEN [res |-> IoOk, env |-> created(env)]
        ELSE IF env.dirs[directory] = "absent" /\ ~ParentWritable(directory)
        THEN [res |-> IoErr("PermissionDenied"), env |-> env]
        ELSE IF second.tag = "Ok" THEN [res |-> IoOk, env |-> created(made)]
        ELSE [res |-> second, env |-> made]

---------------------------------------------------------------------------
(* writer.rs: NonBlocking::build *)

\* NonBlockingBuilder::default(): buffered_lines_limit
DefaultBufferedLinesLimit == 128000

\* NonBlockingBuilder::default(): is_lossy
DefaultLossy == TRUE

\* Drop configured as lossy(false).
NonBlockingBuilderOf_drop_is_blocking(nb) ==
    [buffered_lines_limit |->
        IF IsSome(nb.buffer_length) THEN nb.buffer_length.v
        ELSE DefaultBufferedLinesLimit,
     is_lossy |->
        CASE nb.behaviour = Some("Block") -> FALSE
          [] nb.behaviour = Some("Drop") -> FALSE
          [] OTHER -> DefaultLossy]

\* Block configured as lossy(true).
NonBlockingBuilderOf_block_is_lossy(nb) ==
    [buffered_lines_limit |->
        IF IsSome(nb.buffer_length) THEN nb.buffer_length.v
        ELSE DefaultBufferedLinesLimit,
     is_lossy |->
        CASE nb.behaviour = Some("Block") -> TRUE
          [] nb.behaviour = Some("Drop") -> TRUE
          [] OTHER -> DefaultLossy]

\* One line more than buffer_length allowed in the queue.
NonBlockingBuilderOf_one_more(nb) ==
    [buffered_lines_limit |->
        IF IsSome(nb.buffer_length) THEN nb.buffer_length.v + 1
        ELSE DefaultBufferedLinesLimit,
     is_lossy |->
        CASE nb.behaviour = Some("Block") -> FALSE
          [] nb.behaviour = Some("Drop") -> TRUE
          [] OTHER -> DefaultLossy]

\* buffer_length never passed to buffered_lines_limit.
NonBlockingBuilderOf_ignores_length(nb) ==
    [buffered_lines_limit |-> DefaultBufferedLinesLimit,
     is_lossy |->
        CASE nb.behaviour = Some("Block") -> FALSE
          [] nb.behaviour = Some("Drop") -> TRUE
          [] OTHER -> DefaultLossy]

\* The builder NonBlocking::build hands to finish(): capacity and lossiness.
NonBlockingBuilderOf(nb) ==
    [buffered_lines_limit |->
        IF IsSome(nb.buffer_length) THEN nb.buffer_length.v
        ELSE DefaultBufferedLinesLimit,
     is_lossy |->
        CASE nb.behaviour = Some("Block") -> FALSE
          [] nb.behaviour = Some("Drop") -> TRUE
          [] OTHER -> DefaultLossy]

\* builder.finish(writer): a bounded channel, one worker thread that owns the
\* destination, and the WorkerGuard that stops it.
NonBlockingBuild(nb, dest, env) ==
    LET b == NonBlockingBuilderOf(nb)
        w == [dest |-> dest, cap |-> b.buffered_lines_limit, lossy |-> b.is_lossy,
              queue |-> <<>>, dropped |-> 0, running |-> TRUE, flushed |-> 0]
    IN  [worker |-> Len(env.workers) + 1,
         env |-> [env EXCEPT !.workers = Append(@, w)]]

---------------------------------------------------------------------------
(* writer.rs: MakeWriterInner::new *)

NoSink == [tag |-> "NoSink"]
NoError == [tag |-> "NoError"]

ROk(sink, guard, env) ==
    [tag |-> "Ok", sink |-> sink, guard |-> guard, err |-> NoError, env |-> env]
RErr(e, env) ==
    [tag |-> "Err", sink |-> NoSink, guard |-> NoneV, err |-> e, env |-> env]
RPanic(msg, env) ==
    [tag |-> "Panic", sink |-> NoSink, guard |-> NoneV,
     err |-> [tag |-> "Panic", msg |-> msg], env |-> env]

\* io_extra::context(e, msg): the same kind, with the context attached
Context(kind, msg, where) ==
    [tag |-> "IoError", kind |-> kind, context |-> msg, where |-> where]

\* match behaviour { Truncate => File::create, Append => options().append(true).open }
OpenLogFile(path, behaviour, env) ==
    IF behaviour = "Truncate" THEN FileCreate(path, env) ELSE FileOpenAppend(path, env)

\* non_blocking ignored: the sink stays the synchronous one.
Opened_never_wraps(sync, non_blocking, env) == ROk(sync, NoneV, env)

\* The worker started but its WorkerGuard not handed to the caller.
Opened_drops_guard(sync, non_blocking, env) ==
    IF IsSome(non_blocking)
    THEN LET b == NonBlockingBuild(non_blocking.v, sync.file, env) IN
         ROk([tag |-> "NonBlocking", worker |-> b.worker], NoneV, b.env)
    ELSE ROk(sync, NoneV, env)

\* Ok(it) => match non_blocking { Some(nb) => NonBlocking + guard, None => sync sink }
Opened(sync, non_blocking, env) ==
    IF IsSome(non_blocking)
    THEN LET b == NonBlockingBuild(non_blocking.v, sync.file, env) IN
         ROk([tag |-> "NonBlocking", worker |-> b.worker],
             Some([tag |-> "NonBlocking", worker |-> b.worker]), b.env)
    ELSE ROk(sync, NoneV, env)

\* Err(e) => match defer { true => Ok((Deferred(Arc::new(e)), None)), false => Err(Error(e)) }
OpenFailed(e, defer, env) ==
    IF defer
    THEN ROk([tag |-> "Deferred", arc |-> Len(env.arcs) + 1], NoneV,
             [env EXCEPT !.arcs = Append(@, e)])
    ELSE RErr(e, env)

\* The Null writer resolved to the standard output.
StdSink_null_is_stdout(w, env) ==
    CASE w.tag = "Stdout" -> ROk([tag |-> "Stdout"], NoneV, env)
      [] w.tag = "Stderr" -> ROk([tag |-> "Stderr"], NoneV, env)
      [] w.tag = "Null" -> ROk([tag |-> "Stdout"], NoneV, env)

\* Stdout => Ok((Stdout(io::stdout()), None)), Stderr => ..., Null => Ok((Null(io::sink()), None))
StdSink(w, env) ==
    CASE w.tag = "Stdout" -> ROk([tag |-> "Stdout"], NoneV, env)
      [] w.tag = "Stderr" -> ROk([tag |-> "Stderr"], NoneV, env)
      [] w.tag = "Null" -> ROk([tag |-> "Null"], NoneV, env)

MakeWriterInner_new(w, defer, env) ==
    CASE w.tag = "File" ->
            LET o == OpenLogFile(w.path, w.behaviour, env) IN
            IF o.res.tag = "Ok"
            THEN Opened([tag |-> "File", file |-> w.path], w.non_blocking, o.env)
            ELSE OpenFailed(Context(o.res.kind, "couldn't open log file", w.path.dir),
                            defer, o.env)
      [] w.tag = "Rolling" ->
            LET roll == UnwrapOr(w.roll, RollDefault)
                rotation == UnwrapOr(roll.rotation, RotationDefault)
                o == RollingBuild(w.directory, env)
            IN  IF o.res.tag = "Ok"
                THEN Opened([tag |-> "Rolling", file |-> RollingFile(w.directory)],
                            w.non_blocking, o.env)
                ELSE OpenFailed(Context(o.res.kind,
                                        "couldn't start logging in directory",
                                        w.directory),
                                defer, o.env)
      [] OTHER -> StdSink(w, env)

---------------------------------------------------------------------------
(* writer.rs: MakeWriter::new, MakeWriter::try_new *)

\* Result::expect(msg): the value of Ok, a panic on Err
Expect(r, msg) == IF r.tag = "Err" THEN RPanic(msg, r.env) ELSE r

\* new() asking for immediate errors.
MakeWriter_new_undeferred(w, env) ==
    Expect(MakeWriterInner_new(w, FALSE, env), "errors have been deferred")

\* Guard { _guard: None } returned whatever the sink.
MakeWriter_new_drops_guard(w, env) ==
    [Expect(MakeWriterInner_new(w, TRUE, env), "errors have been deferred")
        EXCEPT !.guard = NoneV]

MakeWriter_new(w, env) ==
    Expect(MakeWriterInner_new(w, TRUE, env), "errors have been deferred")

\* try_new() asking for deferred errors.
MakeWriter_try_new_deferred(w, env) == MakeWriterInner_new(w, TRUE, env)

MakeWriter_try_new(w, env) == MakeWriterInner_new(w, FALSE, env)

---------------------------------------------------------------------------
(* lib.rs: Subscriber *)

\* into_components: match defer { true => try_new(writer)?, false => new(writer) }
Subscriber_into_components(self, defer, env) ==
    LET w == UnwrapOr(self.writer, WriterDefault) IN
    IF defer THEN MakeWriter_try_new(w, env) ELSE MakeWriter_new(w, env)

Subscriber_layer(self, env) ==
    Expect(Subscriber_into_components(self, TRUE, env), "errors have been deferred")

Subscriber_try_layer(self, env) == Subscriber_into_components(self, FALSE, env)

Subscriber_builder(self, env) ==
    Expect(Subscriber_into_components(self, TRUE, env), "errors have been deferred")

Subscriber_try_builder(self, env) == Subscriber_into_components(self, FALSE, env)

---------------------------------------------------------------------------
(* writer.rs: make_writer, write, flush *)

NoWriter == [tag |-> "NoWriter"]

\* For comparison: the Stderr sink handing out a writer to stdout.
MakeWriterInner_make_writer_stderr_is_stdout(sink) ==
    CASE sink.tag = "NonBlocking" -> [tag |-> "NonBlocking", worker |-> sink.worker]
      [] sink.tag = "Stdout" -> [tag |-> "Stdout"]
      [] sink.tag = "Stderr" -> [tag |-> "Stdout"]
      [] sink.tag = "File" -> [tag |-> "File", file |-> sink.file]
      [] sink.tag = "Rolling" -> [tag |-> "Rolling", file |-> sink.file]
      [] sink.tag = "Null" -> [tag |-> "Null"]
      [] sink.tag = "Deferred" -> [tag |-> "Deferred", arc |-> sink.arc]

\* impl MakeWriter for MakeWriterInner: each sink variant hands out its own writer
MakeWriterInner_make_writer(sink) ==
    CASE sink.tag = "NonBlocking" -> [tag |-> "NonBlocking", worker |-> sink.worker]
      [] sink.tag = "Stdout" -> [tag |-> "Stdout"]
      [] sink.tag = "Stderr" -> [tag |-> "Stderr"]
      [] sink.tag = "File" -> [tag |-> "File", file |-> sink.file]
      [] sink.tag = "Rolling" -> [tag |-> "Rolling", file |-> sink.file]
      [] sink.tag = "Null" -> [tag |-> "Null"]
      [] sink.tag = "Deferred" -> [tag |-> "Deferred", arc |-> sink.arc]

WOk(n, env) == [res |-> [tag |-> "Ok", n |-> n], env |-> env]
WErr(kind, cause, env) ==
    [res |-> [tag |-> "Err", kind |-> kind, cause |-> cause], env |-> env]

\* <&File as Write>::write, RollingWriter::write: the bytes go to the file
FileWrite(file, buf, env) ==
    WOk(Len(buf), [env EXCEPT !.files[file].data = @ \o buf])

\* A lossless send on a full channel suspends the caller.
WouldBlock(w, env) ==
    /\ w.tag = "NonBlocking"
    /\ ~env.workers[w.worker].lossy
    /\ Len(env.workers[w.worker].queue) >= env.workers[w.worker].cap

\* tracing_appender NonBlocking::write: the record is queued for the worker;
\* a lossy writer whose queue is full counts the record as dropped.
NonBlockingWrite(wk, buf, env) ==
    IF Len(env.workers[wk].queue) < env.workers[wk].cap
    THEN WOk(Len(buf), [env EXCEPT !.workers[wk].queue = Append(@, buf)])
    ELSE WOk(Len(buf), [env EXCEPT !.workers[wk].dropped = @ + 1])

\* The poisoned writer accepting the call instead of failing it.
DeferredError_accepts(arc, env) == WOk(0, env)

\* The error copied into a new allocation on every call instead of shared.
DeferredError_copies(arc, env) ==
    WErr(env.arcs[arc].kind, Len(env.arcs) + 1,
         [env EXCEPT !.arcs = Append(@, env.arcs[arc])])

\* Err(io::Error::new(e.kind(), Arc::clone(e)))
DeferredError(arc, env) == WErr(env.arcs[arc].kind, arc, env)

\* impl io::Write for WriterInner: write
WriterInner_write(w, buf, env) ==
    CASE w.tag = "NonBlocking" -> NonBlockingWrite(w.worker, buf, env)
      [] w.tag = "Stdout" -> WOk(Len(buf), [env EXCEPT !.stdout = @ \o buf])
      [] w.tag = "Stderr" -> WOk(Len(buf), [env EXCEPT !.stderr = @ \o buf])
      [] w.tag = "File" -> FileWrite(w.file, buf, env)
      [] w.tag = "Rolling" -> FileWrite(w.file, buf, env)
      [] w.tag = "Null" -> WOk(Len(buf), env)
      [] w.tag = "Deferred" -> DeferredError(w.arc, env)

\* impl io::Write for WriterInner: flush
WriterInner_flush(w, env) ==
    CASE w.tag = "Deferred" -> DeferredError(w.arc, env)
      [] OTHER -> WOk(0, env)

---------------------------------------------------------------------------
(* The state machine *)

NoOp == [op |-> "none"]

\* The threads that log through a NonBlocking sink.
Producers == {"p1", "p2"}

\* Before a rolling appender is built, a Format chosen, or the formatters made.
NoAppender == [tag |-> "none"]
NoFormat == [tag |-> "none"]
NoComponents == [tag |-> "none"]

\* Before a string is given to a parser, and before an EnvFilter is made.
NoInput == [tag |-> "none"]
NoParse == [tag |-> "none"]
NoEnvFilter == [tag |-> "none"]

\* impl Default for Filter (derived)
FilterDefault == [regex |-> NoneV, directives |-> <<>>]

\* Nothing parsed and no directive given.
NothingParsed ==
    /\ input = NoInput
    /\ parsed = NoParse
    /\ filter = FilterDefault
    /\ env_filter = NoEnvFilter

\* A Guard as returned: held by the caller.
HeldGuard == [state |-> "held", pending |-> 0]

\* Nothing resolved yet: the file system as found, no sink, no thread.
NothingResolved ==
    /\ dirs = InitDirs
    /\ files = InitFiles
    /\ stdout = <<>>
    /\ stderr = <<>>
    /\ arcs = <<>>
    /\ workers = <<>>
    /\ calls = <<>>
    /\ writer = NoWriter
    /\ nops = 0
    /\ last = NoOp
    /\ results = <<>>
    /\ producers = [p \in Producers |-> [sent |-> 0, blocked |-> FALSE]]
    /\ guards = <<>>

InitWith(configs) ==
    /\ config \in configs
    /\ NothingResolved
    /\ clock = 0
    /\ appender = NoAppender
    /\ format = NoFormat
    /\ components = NoComponents
    /\ rendered = <<>>
    /\ NothingParsed

Init == InitWith(SubscriberConfigs)

SetEnv(env) ==
    /\ dirs' = env.dirs
    /\ files' = env.files
    /\ arcs' = env.arcs
    /\ workers' = env.workers
    /\ stdout' = env.stdout
    /\ stderr' = env.stderr

\* An entry point returned (or panicked): its outcome is recorded.
Returned(api, r, limit) ==
    /\ Len(calls) < limit
    /\ calls' = Append(calls, [api |-> api, tag |-> r.tag, sink |-> r.sink,
                               guard |-> r.guard, err |-> r.err])
    /\ results' = Append(results, {})
    /\ guards' = Append(guards, HeldGuard)
    /\ SetEnv(r.env)
    /\ UNCHANGED <<config, writer, nops, last, producers, rollingVars, formatVars, parseVars>>

CallMakeWriterNew ==
    /\ IsSome(config.writer)
    /\ Returned("MakeWriter::new", MakeWriter_new(config.writer.v, Env), MaxCalls)

CallMakeWriterTryNew ==
    /\ IsSome(config.writer)
    /\ Returned("MakeWriter::try_new", MakeWriter_try_new(config.writer.v, Env), MaxCalls)

CallBuilder ==
    /\ Len(calls) < MaxCalls
    /\ Returned("Subscriber::builder", Subscriber_builder(config, Env), MaxCalls)

CallTryBuilder ==
    /\ Len(calls) < MaxCalls
    /\ Returned("Subscriber::try_builder", Subscriber_try_builder(config, Env), MaxCalls)

CallLayer ==
    /\ Len(calls) < MaxCalls
    /\ Returned("Subscriber::layer", Subscriber_layer(config, Env), MaxCalls)

CallTryLayer ==
    /\ Len(calls) < MaxCalls
    /\ Returned("Subscriber::try_layer", Subscriber_try_layer(config, Env), MaxCalls)

\* MakeWriter::make_writer on the sink a call returned
MakeWriterOp ==
    \E i \in 1..Len(calls) :
        /\ calls[i].tag = "Ok"
        /\ writer' = [call |-> i, inner |-> MakeWriterInner_make_writer(calls[i].sink)]
        /\ writer' # writer
        /\ UNCHANGED <<config, dirs, files, stdout, stderr, arcs, workers, calls,
                       nops, last, results, producers, guards, rollingVars,
                       formatVars, parseVars>>

Observed(op, len, r) ==
    /\ nops' = nops + 1
    /\ last' = [op |-> op, call |-> writer.call, len |-> len, res |-> r.res]
    /\ results' = [results EXCEPT ![writer.call] = @ \cup {[op |-> op, len |-> len, res |-> r.res]}]
    /\ SetEnv(r.env)
    /\ UNCHANGED <<config, calls, writer, guards, rollingVars, formatVars, parseVars>>

\* Writer::write
WriteOp ==
    /\ writer # NoWriter
    /\ nops < MaxOps
    /\ ~WouldBlock(writer.inner, Env)
    /\ \E buf \in Bufs : Observed("write", Len(buf), WriterInner_write(writer.inner, buf, Env))
    /\ UNCHANGED producers

\* Writer::flush
FlushOp ==
    /\ writer # NoWriter
    /\ nops < MaxOps
    /\ Observed("flush", 0, WriterInner_flush(writer.inner, Env))
    /\ UNCHANGED producers

\* The worker thread of a NonBlocking sink writes the oldest queued record.
WorkerStep ==
    \E k \in 1..Len(workers) :
        /\ workers[k].running
        /\ workers[k].queue # <<>>
        /\ files' = [files EXCEPT ![workers[k].dest].data = @ \o Head(workers[k].queue)]
        /\ workers' = [workers EXCEPT ![k].queue = Tail(@)]
        /\ UNCHANGED <<config, dirs, stdout, stderr, arcs, calls, writer, nops,
                       last, results, producers, guards, rollingVars, formatVars, parseVars>>

\* Resolution: the entry points, and the writers their sinks hand out.
Next ==
    \/ CallMakeWriterNew
    \/ CallMakeWriterTryNew
    \/ CallBuilder
    \/ CallTryBuilder
    \/ CallLayer
    \/ CallTryLayer
    \/ MakeWriterOp

Spec == Init /\ [][Next]_vars

---------------------------------------------------------------------------
(* Writing through resolved sinks *)

ResolveDeferred ==
    /\ IsSome(config.writer)
    /\ Returned("MakeWriter::new", MakeWriter_new(config.writer.v, Env), MaxSinks)

ResolveImmediate ==
    /\ IsSome(config.writer)
    /\ Returned("MakeWriter::try_new", MakeWriter_try_new(config.writer.v, Env), MaxSinks)

WriteNext ==
    \/ ResolveDeferred
    \/ ResolveImmediate
    \/ MakeWriterOp
    \/ WriteOp
    \/ FlushOp
    \/ WorkerStep

WriteSpec == Init /\ [][WriteNext]_vars

---------------------------------------------------------------------------
(* The delivery queue of a NonBlocking sink: producer threads write records
   through the sink's writer, the worker thread delivers them to the file. *)

QueueFile == Path("logs", "new.log")

QueueCapacities == {1, 2}

QueueNonBlocking ==
    {[buffer_length |-> NoneV, behaviour |-> NoneV]}
    \cup {[buffer_length |-> Some(c), behaviour |-> Some(b)] :
            c \in QueueCapacities, b \in BackpressureBehaviours}

QueueConfigs ==
    {[writer |-> Some([tag |-> "File", path |-> QueueFile, behaviour |-> "Truncate",
                       non_blocking |-> Some(nb)])] : nb \in QueueNonBlocking}

QueueInit == InitWith(QueueConfigs)

\* The sink is resolved once, before any thread logs.
QueueResolve ==
    /\ Len(calls) = 0
    /\ Returned("MakeWriter::new", MakeWriter_new(config.writer.v, Env), 1)

\* The k-th record of producer p.
Record(p, k) == <<[p |-> p, k |-> k]>>

\* A producer's write finds the lossless queue full: the thread is suspended.
ProducerBlocks(p) ==
    /\ writer # NoWriter
    /\ producers[p].sent < MaxRecords
    /\ ~producers[p].blocked
    /\ WouldBlock(writer.inner, Env)
    /\ producers' = [producers EXCEPT ![p].blocked = TRUE]
    /\ UNCHANGED <<config, dirs, files, stdout, stderr, arcs, workers, calls,
                   writer, nops, last, results, guards, rollingVars, formatVars, parseVars>>

\* A producer's write returns: the record was queued, or dropped by a lossy queue.
Enqueue(p) ==
    /\ writer # NoWriter
    /\ producers[p].sent < MaxRecords
    /\ ~WouldBlock(writer.inner, Env)
    /\ LET r == WriterInner_write(writer.inner, Record(p, producers[p].sent + 1), Env)
       IN  /\ SetEnv(r.env)
           /\ last' = [op |-> "write", call |-> writer.call, len |-> 1, res |-> r.res]
    /\ producers' = [producers EXCEPT ![p] = [sent |-> @.sent + 1, blocked |-> FALSE]]
    /\ UNCHANGED <<config, calls, writer, nops, results, guards, rollingVars,
                   formatVars, parseVars>>

QueueNext ==
    \/ QueueResolve
    \/ MakeWriterOp
    \/ \E p \in Producers : ProducerBlocks(p)
    \/ \E p \in Producers : Enqueue(p)
    \/ WorkerStep

QueueSpec == QueueInit /\ [][QueueNext]_vars

\* The worker is a thread of its own and the producers are running threads.
FairQueueSpec ==
    /\ QueueSpec
    /\ WF_vars(QueueResolve)
    /\ WF_vars(MakeWriterOp)
    /\ WF_vars(WorkerStep)
    /\ \A p \in Producers : WF_vars(Enqueue(p))

---------------------------------------------------------------------------
(* writer.rs: the Rolling arm, and the appender it builds *)

Rotations == {"Minutely", "Hourly", "Daily", "Never"}

RollLimits == {1, 2, 3}

\* lib.rs Roll, with every rotation and limit
RollingRolls ==
    {[limit |-> l, prefix |-> n[1], suffix |-> n[2], rotation |-> r] :
        l \in {NoneV} \cup {Some(k) : k \in RollLimits},
        n \in {<<NoneV, NoneV>>, <<Some("app"), Some("log")>>},
        r \in {NoneV} \cup {Some(x) : x \in Rotations}}

RollingConfigs ==
    {[writer |-> Some([tag |-> "Rolling", directory |-> "logs", roll |-> r,
                       non_blocking |-> NoneV])] :
        r \in {NoneV} \cup {Some(x) : x \in RollingRolls}}

\* Minute 0, two minutes before an hour boundary, two minutes before midnight.
StartTimes == {0, 58, 1438}

\* Rotation::Minutely named HOURLY to the builder, and Hourly MINUTELY.
RollingBuilderOf_minutely_is_hourly(roll) ==
    [max_files |-> roll.limit,
     prefix |-> roll.prefix,
     suffix |-> roll.suffix,
     rotation |->
        CASE UnwrapOr(roll.rotation, RotationDefault) = "Minutely" -> "HOURLY"
          [] UnwrapOr(roll.rotation, RotationDefault) = "Hourly" -> "MINUTELY"
          [] UnwrapOr(roll.rotation, RotationDefault) = "Daily" -> "DAILY"
          [] UnwrapOr(roll.rotation, RotationDefault) = "Never" -> "NEVER"]

\* limit never passed to max_log_files.
RollingBuilderOf_ignores_limit(roll) ==
    [max_files |-> NoneV,
     prefix |-> roll.prefix,
     suffix |-> roll.suffix,
     rotation |->
        CASE UnwrapOr(roll.rotation, RotationDefault) = "Minutely" -> "MINUTELY"
          [] UnwrapOr(roll.rotation, RotationDefault) = "Hourly" -> "HOURLY"
          [] UnwrapOr(roll.rotation, RotationDefault) = "Daily" -> "DAILY"
          [] UnwrapOr(roll.rotation, RotationDefault) = "Never" -> "NEVER"]

\* The builder the Rolling arm configures: max_log_files, filename_prefix,
\* filename_suffix and rotation.
RollingBuilderOf(roll) ==
    [max_files |-> roll.limit,
     prefix |-> roll.prefix,
     suffix |-> roll.suffix,
     rotation |->
        CASE UnwrapOr(roll.rotation, RotationDefault) = "Minutely" -> "MINUTELY"
          [] UnwrapOr(roll.rotation, RotationDefault) = "Hourly" -> "HOURLY"
          [] UnwrapOr(roll.rotation, RotationDefault) = "Daily" -> "DAILY"
          [] UnwrapOr(roll.rotation, RotationDefault) = "Never" -> "NEVER"]

\* The first minute of the time bucket of minute t; NEVER has one bucket.
BucketStart(rotation, t) ==
    CASE rotation = "MINUTELY" -> Some(t)
      [] rotation = "HOURLY" -> Some(t - (t % 60))
      [] rotation = "DAILY" -> Some(t - (t % 1440))
      [] rotation = "NEVER" -> NoneV

\* {prefix}{bucket-timestamp}{suffix}
LogName(b, t) ==
    [prefix |-> b.prefix, stamp |-> BucketStart(b.rotation, t), suffix |-> b.suffix]

\* The appender as built at minute t: the file of the current bucket is open.
RollingAppenderNew(b, t) ==
    [tag |-> "built", builder |-> b, active |-> LogName(b, t), opened |-> t,
     logs |-> <<[name |-> LogName(b, t), data |-> <<>>]>>, created |-> 1]

\* With a limit, the oldest files beyond it are deleted.
Prune(logs, max_files) ==
    IF IsSome(max_files) /\ Len(logs) > max_files.v
    THEN SubSeq(logs, Len(logs) - max_files.v + 1, Len(logs))
    ELSE logs

\* A write at minute t: when the bucket of t is not the active file's, the
\* file of that bucket is opened first; the bytes go to the active file.
RollingAppenderWrite(a, t, buf) ==
    LET name == LogName(a.builder, t)
        now == IF name = a.active THEN a
               ELSE [a EXCEPT !.active = name,
                              !.opened = t,
                              !.logs = Prune(Append(@, [name |-> name, data |-> <<>>]),
                                             a.builder.max_files),
                              !.created = @ + 1]
    IN  [now EXCEPT !.logs[Len(now.logs)].data = @ \o buf]

RollInit ==
    /\ config \in RollingConfigs
    /\ NothingResolved
    /\ clock \in StartTimes
    /\ appender = NoAppender
    /\ format = NoFormat
    /\ components = NoComponents
    /\ rendered = <<>>
    /\ NothingParsed

\* MakeWriterInner::new, Rolling arm: the builder is configured and built.
RollResolve ==
    /\ appender = NoAppender
    /\ appender' = RollingAppenderNew(
            RollingBuilderOf(UnwrapOr(config.writer.v.roll, RollDefault)), clock)
    /\ UNCHANGED <<config, dirs, files, stdout, stderr, arcs, workers, calls, writer,
                   nops, last, results, producers, guards, clock, formatVars, parseVars>>

\* A minute passes.
Tick ==
    /\ \E s \in StartTimes : s <= clock /\ clock < s + MaxTicks
    /\ clock' = clock + 1
    /\ UNCHANGED <<config, dirs, files, stdout, stderr, arcs, workers, calls, writer,
                   nops, last, results, producers, guards, appender, formatVars, parseVars>>

\* WriterInner::write on the Rolling writer: one record, stamped with the minute.
RollingWrite ==
    /\ appender # NoAppender
    /\ nops < MaxRollWrites
    /\ appender' = RollingAppenderWrite(appender, clock, <<[t |-> clock, n |-> nops + 1]>>)
    /\ nops' = nops + 1
    /\ UNCHANGED <<config, dirs, files, stdout, stderr, arcs, workers, calls, writer,
                   last, results, producers, guards, clock, formatVars, parseVars>>

RollNext ==
    \/ RollResolve
    \/ Tick
    \/ RollingWrite

RollSpec == RollInit /\ [][RollNext]_vars

---------------------------------------------------------------------------
(* The Guard of a NonBlocking sink: dropping it shuts the worker down. *)

\* GuardInner::NonBlocking { _guard }: the worker the Guard of call i owns (0: none).
GuardWorker(i) == IF IsSome(calls[i].guard) THEN calls[i].guard.v.worker ELSE 0

\* Every Guard returned so far is still held: logging goes on.
GuardsHeld == \A i \in 1..Len(guards) : guards[i].state = "held"

\* The caller drops a Guard after its threads stopped logging. A Guard that
\* owns a worker asks it to shut down and waits; an empty Guard is dropped at once.
DropGuard ==
    \E i \in 1..Len(guards) :
        /\ guards[i].state = "held"
        /\ \A p \in Producers : ~producers[p].blocked
        /\ guards' = [guards EXCEPT ![i] =
              IF IsSome(calls[i].guard)
              THEN [state |-> "dropping", pending |-> Len(workers[GuardWorker(i)].queue)]
              ELSE [state |-> "dropped", pending |-> 0]]
        /\ UNCHANGED <<config, dirs, files, stdout, stderr, arcs, workers, calls,
                       writer, nops, last, results, producers, rollingVars,
                       formatVars, parseVars>>

\* The worker, asked to shut down, has drained its queue: it flushes the
\* destination and its thread ends.
WorkerShutdown ==
    \E i \in 1..Len(guards) :
        LET k == GuardWorker(i) IN
            /\ guards[i].state = "dropping"
            /\ workers[k].running
            /\ workers[k].queue = <<>>
            /\ workers' = [workers EXCEPT
                    ![k].running = FALSE,
                    ![k].flushed = Len(files[workers[k].dest].data)]
            /\ UNCHANGED <<config, dirs, files, stdout, stderr, arcs, calls, writer,
                           nops, last, results, producers, guards, rollingVars,
                           formatVars, parseVars>>

\* The drop returns once the worker has stopped.
GuardDropped ==
    \E i \in 1..Len(guards) :
        /\ guards[i].state = "dropping"
        /\ ~workers[GuardWorker(i)].running
        /\ guards' = [guards EXCEPT ![i].state = "dropped"]
        /\ UNCHANGED <<config, dirs, files, stdout, stderr, arcs, workers, calls,
                       writer, nops, last, results, producers, rollingVars,
                       formatVars, parseVars>>

GuardNext ==
    \/ QueueResolve
    \/ MakeWriterOp
    \/ \E p \in Producers : GuardsHeld /\ ProducerBlocks(p)
    \/ \E p \in Producers : GuardsHeld /\ Enqueue(p)
    \/ WorkerStep
    \/ DropGuard
    \/ WorkerShutdown
    \/ GuardDropped

GuardSpec == QueueInit /\ [][GuardNext]_vars

\* The worker and the dropping thread are scheduled; when the Guard is
\* dropped is up to the caller.
FairGuardSpec ==
    /\ GuardSpec
    /\ WF_vars(QueueResolve)
    /\ WF_vars(MakeWriterOp)
    /\ WF_vars(WorkerStep)
    /\ WF_vars(WorkerShutdown)
    /\ WF_vars(GuardDropped)
    /\ \A p \in Producers : WF_vars(GuardsHeld /\ Enqueue(p))

---------------------------------------------------------------------------
(* lib.rs Format, Formatter, Json, Timer; time.rs and format.rs: the
   formatters built from them *)

OptBool == {NoneV, Some(TRUE), Some(FALSE)}

\* lib.rs Json { flatten_event, current_span, span_list }
JsonConfigs ==
    {[flatten_event |-> NoneV, current_span |-> NoneV, span_list |-> NoneV],
     [flatten_event |-> Some(TRUE), current_span |-> Some(FALSE), span_list |-> NoneV],
     [flatten_event |-> Some(FALSE), current_span |-> NoneV, span_list |-> Some(TRUE)]}

\* impl Default for Json
JsonDefault == [flatten_event |-> NoneV, current_span |-> NoneV, span_list |-> NoneV]

\* lib.rs Formatter: Full, Compact, Pretty, Json(Option<Json>)
PlainFormatters == {[tag |-> "Full"], [tag |-> "Compact"], [tag |-> "Pretty"]}

Formatters ==
    PlainFormatters
    \cup {[tag |-> "Json", json |-> j] : j \in {NoneV} \cup {Some(c) : c \in JsonConfigs}}

\* impl Default for Formatter: #[default] Full
FormatterDefault == [tag |-> "Full"]

\* strftime patterns given to Timer::Local and Timer::Utc
Patterns == {"%+", "", "%H:%M"}

OptPattern == {NoneV} \cup {Some(x) : x \in Patterns}

\* lib.rs Timer: None, Local(Option<String>), Utc(Option<String>), System, Uptime
Timers ==
    {[kind |-> "None"], [kind |-> "System"], [kind |-> "Uptime"]}
    \cup {[kind |-> k, pattern |-> x] : k \in {"Local", "Utc"}, x \in OptPattern}

\* impl Default for Timer: #[default] System
TimerDefault == [kind |-> "System"]

\* The Option<bool> fields of Format, in declaration order.
Toggles ==
    <<"ansi", "target", "level", "thread_ids", "thread_names", "file", "line_number">>

\* lib.rs Format
MkFormat(tg, formatter, timer) ==
    [ansi |-> tg[1], target |-> tg[2], level |-> tg[3], thread_ids |-> tg[4],
     thread_names |-> tg[5], file |-> tg[6], line_number |-> tg[7],
     formatter |-> formatter, timer |-> timer]

AllToggles == [1..Len(Toggles) -> OptBool]

\* No toggle set, every toggle set alike, or exactly one set.
FewToggles ==
    {[i \in 1..Len(Toggles) |-> x] : x \in OptBool}
    \cup {[i \in 1..Len(Toggles) |-> IF i = k THEN x ELSE NoneV] :
            k \in 1..Len(Toggles), x \in OptBool}

\* Every toggle combination with every layout, and every formatter and timer
\* with a few toggle combinations.
Formats ==
    {MkFormat(tg, fm, NoneV) :
        tg \in AllToggles,
        fm \in {Some(x) : x \in PlainFormatters \cup {[tag |-> "Json", json |-> NoneV]}}}
    \cup {MkFormat(tg, fm, tm) :
            tg \in FewToggles,
            fm \in {NoneV} \cup {Some(x) : x \in Formatters},
            tm \in {NoneV} \cup {Some(x) : x \in Timers}}

\* ChronoLocal::rfc_3339() / ChronoUtc::rfc_3339(), and ::new(pattern)
Rfc3339 == [tag |-> "Rfc3339"]
Custom(pattern) == [tag |-> "Custom", pattern |-> pattern]

\* time.rs Timer::Local(it): Some("%+") and None are RFC 3339, else the pattern
LocalFormat(it) ==
    IF it = Some("%+") THEN Rfc3339
    ELSE IF it = NoneV THEN Rfc3339
    ELSE Custom(it.v)

\* The empty pattern taken for an absent one.
UtcFormat_empty_is_rfc_3339(it) ==
    IF it = Some("%+") \/ it = Some("") THEN Rfc3339
    ELSE IF it = NoneV THEN Rfc3339
    ELSE Custom(it.v)

\* time.rs Timer::Utc(it): Some("%+") and None are RFC 3339, else the pattern
UtcFormat(it) ==
    IF it = Some("%+") THEN Rfc3339
    ELSE IF it = NoneV THEN Rfc3339
    ELSE Custom(it.v)

\* The instant the process started, for a call made at minute now.
ProcessStartAt(now) == CHOOSE s \in StartTimes : s <= now /\ now <= s + MaxTicks

\* The Uptime zero point taken at process start, not at the call.
FormatTimeInner_from_process_start(value, now) ==
    CASE value.kind = "None" -> [kind |-> "None"]
      [] value.kind = "Local" -> [kind |-> "Local", fmt |-> LocalFormat(value.pattern)]
      [] value.kind = "Utc" -> [kind |-> "Utc", fmt |-> UtcFormat(value.pattern)]
      [] value.kind = "System" -> [kind |-> "System"]
      [] value.kind = "Uptime" -> [kind |-> "Uptime", epoch |-> ProcessStartAt(now)]

\* time.rs From<crate::Timer> for FormatTimeInner, called at minute now
FormatTimeInner_from(value, now) ==
    CASE value.kind = "None" -> [kind |-> "None"]
      [] value.kind = "Local" -> [kind |-> "Local", fmt |-> LocalFormat(value.pattern)]
      [] value.kind = "Utc" -> [kind |-> "Utc", fmt |-> UtcFormat(value.pattern)]
      [] value.kind = "System" -> [kind |-> "System"]
      [] value.kind = "Uptime" -> [kind |-> "Uptime", epoch |-> now]

\* Format::default().with_timer(timer): every setting as the layout has it.
\* A setting is keyed by the method that sets it.
OrigFormat(timer) ==
    [timer |-> timer, with_ansi |-> NoneV, with_target |-> NoneV, with_level |-> NoneV,
     with_thread_ids |-> NoneV, with_thread_names |-> NoneV, with_file |-> NoneV,
     with_line_number |-> NoneV]

\* orig.json() with the Json settings that are configured
JsonFormat(orig, it) ==
    LET json == UnwrapOr(it, JsonDefault) IN
        [s \in DOMAIN orig \cup {"flatten_event", "with_current_span", "with_span_list"} |->
            CASE s = "flatten_event" -> json.flatten_event
              [] s = "with_current_span" -> json.current_span
              [] s = "with_span_list" -> json.span_list
              [] OTHER -> orig[s]]

\* Compact built without .compact().
Layout_compact_is_full(formatter, orig) ==
    CASE formatter.tag = "Full" -> [layout |-> "Full", format |-> orig]
      [] formatter.tag = "Compact" -> [layout |-> "Full", format |-> orig]
      [] formatter.tag = "Pretty" -> [layout |-> "Pretty", format |-> orig]
      [] formatter.tag = "Json" ->
            [layout |-> "Json", format |-> JsonFormat(orig, formatter.json)]

\* format.rs: match formatter.unwrap_or_default() { Full, Compact, Pretty, Json(it) }
Layout(formatter, orig) ==
    CASE formatter.tag = "Full" -> [layout |-> "Full", format |-> orig]
      [] formatter.tag = "Compact" -> [layout |-> "Compact", format |-> orig]
      [] formatter.tag = "Pretty" -> [layout |-> "Pretty", format |-> orig]
      [] formatter.tag = "Json" ->
            [layout |-> "Json", format |-> JsonFormat(orig, formatter.json)]

\* A toggle applied only when it is Some(true).
apply_only_true(receiver, method, arg) ==
    IF arg = Some(TRUE)
    THEN [layout |-> receiver.layout,
          format |-> [receiver.format EXCEPT ![method] = Some(TRUE)]]
    ELSE receiver

\* format.rs apply!: if let Some(arg) = $arg, the same variant with $method(arg)
apply(receiver, method, arg) ==
    IF IsSome(arg)
    THEN CASE receiver.layout = "Full" ->
                [layout |-> "Full", format |-> [receiver.format EXCEPT ![method] = Some(arg.v)]]
           [] receiver.layout = "Compact" ->
                [layout |-> "Compact", format |-> [receiver.format EXCEPT ![method] = Some(arg.v)]]
           [] receiver.layout = "Pretty" ->
                [layout |-> "Pretty", format |-> [receiver.format EXCEPT ![method] = Some(arg.v)]]
           [] receiver.layout = "Json" ->
                [layout |-> "Json", format |-> [receiver.format EXCEPT ![method] = Some(arg.v)]]
    ELSE receiver

\* format.rs From<crate::Format> for FormatEventInner, called at minute now
FormatEventInner_from(value, now) ==
    LET orig == OrigFormat(FormatTimeInner_from(UnwrapOr(value.timer, TimerDefault), now))
        this0 == Layout(UnwrapOr(value.formatter, FormatterDefault), orig)
        this1 == apply(this0, "with_ansi", value.ansi)
        this2 == apply(this1, "with_target", value.target)
        this3 == apply(this2, "with_level", value.level)
        this4 == apply(this3, "with_thread_ids", value.thread_ids)
        this5 == apply(this4, "with_thread_names", value.thread_names)
        this6 == apply(this5, "with_file", value.file)
    IN  apply(this6, "with_line_number", value.line_number)

\* Compact given the pretty field formatter.
FormatFieldsInner_from_compact_is_pretty(value) ==
    CASE value.tag = "Full" -> [tag |-> "Default"]
      [] value.tag = "Compact" -> [tag |-> "Pretty"]
      [] value.tag = "Pretty" -> [tag |-> "Pretty"]
      [] value.tag = "Json" -> [tag |-> "Json"]

\* format.rs From<crate::Formatter> for FormatFieldsInner
FormatFieldsInner_from(value) ==
    CASE value.tag = "Full" -> [tag |-> "Default"]
      [] value.tag = "Compact" -> [tag |-> "Default"]
      [] value.tag = "Pretty" -> [tag |-> "Pretty"]
      [] value.tag = "Json" -> [tag |-> "Json"]

FormatInit ==
    /\ config = [writer |-> NoneV]
    /\ NothingResolved
    /\ clock = 0
    /\ appender = NoAppender
    /\ format \in Formats
    /\ components = NoComponents
    /\ rendered = <<>>
    /\ NothingParsed

\* Subscriber::into_components: the field and the event formatter are built
\* from the Format.
IntoComponents ==
    /\ components = NoComponents
    /\ components' =
          [tag |-> "built",
           fmt_fields |-> FormatFieldsInner_from(UnwrapOr(format.formatter, FormatterDefault)),
           fmt_event |-> FormatEventInner_from(format, clock)]
    /\ UNCHANGED <<config, dirs, files, stdout, stderr, arcs, workers, calls, writer,
                   nops, last, results, producers, guards, rollingVars, format,
                   rendered, parseVars>>

FormatNext == IntoComponents

FormatSpec == FormatInit /\ [][FormatNext]_vars

---------------------------------------------------------------------------
(* What the claims speak about *)

\* The Writer a call resolved: the configured one, or the default.
Resolved == UnwrapOr(config.writer, WriterDefault)

CallsOf(apis) == {i \in 1..Len(calls) : calls[i].api \in apis}

DeferredApis == {"Subscriber::builder", "Subscriber::layer"}
ImmediateApis == {"Subscriber::try_builder", "Subscriber::try_layer"}
WriterApis == {"MakeWriter::new", "MakeWriter::try_new"}

OnDisk(w) == w.tag \in {"File", "Rolling"}

\* The log file a File or Rolling writer opens.
Target(w) == IF w.tag = "File" THEN w.path ELSE RollingFile(w.directory)

\* The open succeeded: the log file is there (opened or created).
LogOpened(w) == OnDisk(w) /\ files[Target(w)].exists

OpenFailure(w) == OnDisk(w) /\ ~files[Target(w)].exists

OpenErrorKinds == {"NotFound", "PermissionDenied"}

Poisoned(c) == c.tag = "Ok" /\ c.sink.tag = "Deferred"

---------------------------------------------------------------------------
(* C1: Subscriber::builder() and Subscriber::layer() never fail and never
   panic: every call returns a (pipeline, Guard) pair, and when the log file
   or directory cannot be opened the pair's writer is the poisoned sink. *)
C1_BuilderLayerNeverFail ==
    \A i \in CallsOf(DeferredApis) :
        /\ calls[i].tag = "Ok"
        /\ OpenFailure(Resolved) => calls[i].sink.tag = "Deferred"

(* C2: Subscriber::try_builder() and Subscriber::try_layer() return Err
   whenever the open fails and Ok with a healthy writer whenever it succeeds;
   they never hand back a poisoned sink. *)
C2_TryBuilderLayerPropagate ==
    \A i \in CallsOf(ImmediateApis) :
        /\ OpenFailure(Resolved) => calls[i].tag = "Err"
        /\ ~OpenFailure(Resolved) => calls[i].tag = "Ok"
        /\ ~Poisoned(calls[i])

(* C3: MakeWriter::new never fails: for every Writer and every outcome of the
   open it returns a (sink, Guard) pair, the sink being the poisoned sink that
   holds the open error exactly when the open failed; the expect is never
   reached with an Err. *)
C3_NewNeverFails ==
    \A i \in CallsOf({"MakeWriter::new"}) :
        /\ calls[i].tag = "Ok"
        /\ OpenFailure(Resolved) <=> calls[i].sink.tag = "Deferred"
        /\ calls[i].sink.tag = "Deferred" =>
              /\ calls[i].sink.arc \in 1..Len(arcs)
              /\ arcs[calls[i].sink.arc].kind \in OpenErrorKinds
              /\ calls[i].guard = NoneV

C3_Witness ==
    \E i \in CallsOf({"MakeWriter::new"}) : OpenFailure(Resolved) /\ Poisoned(calls[i])

(* C4: MakeWriter::try_new returns Err exactly when opening the File path or
   building the Rolling appender fails; on Err there is no sink and no guard,
   on Ok the sink is never the poisoned sink. *)
C4_TryNewErrIffOpenFails ==
    \A i \in CallsOf({"MakeWriter::try_new"}) :
        /\ calls[i].tag \in {"Ok", "Err"}
        /\ calls[i].tag = "Err" <=> OpenFailure(Resolved)
        /\ calls[i].tag = "Err" =>
              /\ calls[i].sink = NoSink
              /\ calls[i].guard = NoneV
              /\ calls[i].err.kind \in OpenErrorKinds
        /\ ~Poisoned(calls[i])

C4_Witness ==
    \E i \in CallsOf({"MakeWriter::try_new"}) :
        calls[i].tag = "Err" /\ OpenFailure(Resolved)

GuardedCalls == {i \in 1..Len(calls) : IsSome(calls[i].guard)}

(* C8: the Guard owns a delivery worker if and only if the writer is File or
   Rolling, asks for non_blocking and was opened; otherwise the Guard holds
   nothing, and no worker thread exists that no Guard owns. *)
C8_GuardOwnsWorkerIff ==
    /\ \A i \in 1..Len(calls) :
          /\ IsSome(calls[i].guard) <=>
                /\ calls[i].tag = "Ok"
                /\ OnDisk(Resolved)
                /\ IsSome(Resolved.non_blocking)
                /\ LogOpened(Resolved)
          /\ IsSome(calls[i].guard) =>
                /\ calls[i].guard.v.worker \in 1..Len(workers)
                /\ workers[calls[i].guard.v.worker].running
                /\ calls[i].sink = [tag |-> "NonBlocking",
                                    worker |-> calls[i].guard.v.worker]
    /\ \A i, j \in GuardedCalls :
          calls[i].guard.v.worker = calls[j].guard.v.worker => i = j
    /\ Len(workers) = Cardinality(GuardedCalls)

C8_Witness ==
    /\ Cardinality(GuardedCalls) = 2
    /\ Len(workers) = 2
    /\ \E i \in GuardedCalls : calls[i].api = "MakeWriter::try_new"

(* C9: a File writer whose parent directory exists and is writable resolves
   successfully in both open modes, whether or not the file already exists. *)
C9_FileOpensWhenParentWritable ==
    \A i \in CallsOf(WriterApis) :
        (Resolved.tag = "File" /\ dirs[Resolved.path.dir] = "writable")
            => (calls[i].tag = "Ok" /\ calls[i].sink.tag # "Deferred")

---------------------------------------------------------------------------
(* Claims about writing, under WriteSpec *)

Outputs == <<files, stdout, stderr, workers>>

\* A write or flush step on a writer of call i.
OpStep == writer # NoWriter /\ nops' = nops + 1

PoisonedResultsFail ==
    \A i \in 1..Len(calls) :
        Poisoned(calls[i]) => \A r \in results[i] : r.res.tag = "Err"

WriterOfPoisoned ==
    writer # NoWriter =>
        (Poisoned(calls[writer.call]) <=> writer.inner.tag = "Deferred")

(* C5: a poisoned sink fails forever: every write and every flush on a writer
   made by a poisoned MakeWriter returns Err, delivers no bytes anywhere, and
   the sink never becomes healthy. *)
C5_PoisonedFailsForever ==
    /\ [](PoisonedResultsFail /\ WriterOfPoisoned)
    /\ [][(OpStep /\ Poisoned(calls[writer.call])) =>
            (last'.res.tag = "Err" /\ UNCHANGED Outputs)]_vars
    /\ [][\A i \in 1..Len(calls) : Poisoned(calls[i]) => calls'[i] = calls[i]]_vars

C5_Witness ==
    \E i \in 1..Len(calls) :
        /\ Poisoned(calls[i])
        /\ \E r, q \in results[i] : r.op = "write" /\ q.op = "flush"

(* C6: every error a poisoned sink returns references the one original
   construction error: the cause is the identical shared object, the kind is
   the original kind, and the stored error is never modified. *)
C6_ErrorsShareOneCause ==
    /\ [](\A i \in 1..Len(calls) :
            Poisoned(calls[i]) =>
                /\ \A r \in results[i] :
                      /\ r.res.tag = "Err"
                      /\ r.res.cause = calls[i].sink.arc
                      /\ r.res.kind = arcs[calls[i].sink.arc].kind
                /\ \A r, q \in results[i] : r.res.cause = q.res.cause
                /\ arcs[calls[i].sink.arc].kind \in OpenErrorKinds)
    /\ [][\A a \in 1..Len(arcs) : arcs'[a] = arcs[a]]_vars

C6_Witness ==
    \E i \in 1..Len(calls) :
        /\ Poisoned(calls[i])
        /\ \E r, q \in results[i] :
              r.op = "write" /\ q.op = "write" /\ r.len # q.len

StdTags == {"Null", "Stdout", "Stderr"}

(* C7: resolving Null, Stdout or Stderr succeeds in the deferred and in the
   immediate mode, every time, with the same sink; Null accepts and discards
   every write, Stdout and Stderr write to the process stream. *)
C7_StdSinksResolveAlike ==
    /\ [](Resolved.tag \in StdTags =>
            \A i \in 1..Len(calls) :
                /\ calls[i].tag = "Ok"
                /\ calls[i].sink = [tag |-> Resolved.tag]
                /\ calls[i].guard = NoneV
                /\ \A r \in results[i] : r.res = [tag |-> "Ok", n |-> r.len])
    /\ [][(OpStep /\ last'.op = "write") =>
            CASE writer.inner.tag = "Null" -> UNCHANGED Outputs
              [] writer.inner.tag = "Stdout" ->
                    /\ \E buf \in Bufs : Len(buf) = last'.len /\ stdout' = stdout \o buf
                    /\ UNCHANGED <<files, stderr, workers>>
              [] writer.inner.tag = "Stderr" ->
                    /\ \E buf \in Bufs : Len(buf) = last'.len /\ stderr' = stderr \o buf
                    /\ UNCHANGED <<files, stdout, workers>>
              [] OTHER -> TRUE]_vars

C7_Witness ==
    /\ Resolved.tag = "Null"
    /\ Len(calls) = 2
    /\ calls[1].api # calls[2].api
    /\ \A i \in 1..2 : \E r \in results[i] : r.op = "write" /\ r.res.tag = "Ok"

---------------------------------------------------------------------------
(* Claims about the delivery queue, under FairQueueSpec *)

\* The records of producer p in a sequence of records, as their numbers.
RECURSIVE NumbersOf(_, _)
NumbersOf(p, seq) ==
    IF seq = <<>> THEN <<>>
    ELSE (IF Head(seq).p = p THEN <<Head(seq).k>> ELSE <<>>) \o NumbersOf(p, Tail(seq))

RECURSIVE Flatten(_)
Flatten(q) == IF q = <<>> THEN <<>> ELSE Head(q) \o Flatten(Tail(q))

UpTo(n) == [k \in 1..n |-> k]

Delivered == files[QueueFile].data

Queued == IF workers = <<>> THEN <<>> ELSE Flatten(workers[1].queue)

BlockConfigured == Resolved.non_blocking.v.behaviour = Some("Block")

\* Nothing written so far is lost or reordered: delivered, then queued, are
\* exactly the records each producer has written, in the order it wrote them.
NothingLost ==
    /\ \A p \in Producers : NumbersOf(p, Delivered \o Queued) = UpTo(producers[p].sent)
    /\ \A k \in 1..Len(workers) :
          workers[k].dropped = 0 /\ Len(workers[k].queue) <= workers[k].cap

\* A producer is suspended only by a write that finds the queue full.
SuspendedOnlyWhenFull ==
    \A p \in Producers :
        (~producers[p].blocked /\ producers'[p].blocked) =>
            (workers # <<>> /\ Len(workers[1].queue) = workers[1].cap)

AllDelivered == \A p \in Producers : NumbersOf(p, Delivered) = UpTo(MaxRecords)

(* C10: under the Block policy the queue loses nothing: every record a
   producer writes is delivered to the destination, in the order written, the
   producer being suspended while the queue is full. *)
C10_BlockLosesNothing ==
    /\ [](BlockConfigured => NothingLost)
    /\ [][BlockConfigured => SuspendedOnlyWhenFull]_vars
    /\ \A p \in Producers : (producers[p].blocked ~> ~producers[p].blocked)
    /\ (BlockConfigured ~> AllDelivered)

C10_Witness ==
    /\ BlockConfigured
    /\ AllDelivered
    /\ workers[1].cap < MaxRecords
    /\ Len(Delivered) > workers[1].cap

DropConfigured == Resolved.non_blocking.v.behaviour = Some("Drop")

\* The buffer_length the configuration asks for.
ConfiguredCapacity == Resolved.non_blocking.v.buffer_length.v

Min(a, b) == IF a < b THEN a ELSE b

RECURSIVE SentBy(_)
SentBy(ps) ==
    IF ps = {} THEN 0
    ELSE LET p == CHOOSE q \in ps : TRUE IN producers[p].sent + SentBy(ps \ {p})

TotalSent == SentBy(Producers)

Dropped == IF workers = <<>> THEN 0 ELSE workers[1].dropped

\* The worker has consumed nothing yet: the queue holds the first records
\* written, up to the configured capacity, and every later one was dropped.
OverflowDropped ==
    (workers # <<>> /\ Delivered = <<>>) =>
        /\ Len(workers[1].queue) = Min(TotalSent, ConfiguredCapacity)
        /\ Dropped = TotalSent - Min(TotalSent, ConfiguredCapacity)
        /\ \A p \in Producers :
              SentBy(Producers \ {p}) = 0 =>
                  NumbersOf(p, Queued) = UpTo(Min(producers[p].sent, ConfiguredCapacity))

\* Every record written is delivered, queued, or counted as dropped.
DropsCounted == Len(Delivered) + Len(Queued) + Dropped = TotalSent

\* The worker delivers the head of the queue: delivery keeps the enqueue order.
DeliversInQueueOrder ==
    Delivered' # Delivered => Delivered' \o Queued' = Delivered \o Queued

(* C11: under the Drop policy, a producer that writes capacity+N records into
   an empty queue whose worker has consumed nothing loses exactly the last N:
   the dropped counter is N, no producer is suspended, and the capacity
   records that were queued are delivered in the order they were written. *)
C11_DropDiscardsOverflow ==
    /\ [](DropConfigured =>
            /\ OverflowDropped
            /\ DropsCounted
            /\ \A p \in Producers : ~producers[p].blocked)
    /\ [][DropConfigured => DeliversInQueueOrder]_vars
    /\ (DropConfigured ~> (TotalSent = MaxRecords * Cardinality(Producers)
                            /\ Queued = <<>> /\ Delivered # <<>>))

C11_Witness ==
    /\ DropConfigured
    /\ producers["p1"].sent = MaxRecords
    /\ producers["p2"].sent = 0
    /\ Dropped = MaxRecords - ConfiguredCapacity
    /\ Dropped > 0
    /\ NumbersOf("p1", Delivered) = UpTo(ConfiguredCapacity)

StrictlyIncreasing(seq) ==
    \A i, j \in 1..Len(seq) : i < j => seq[i] < seq[j]

\* The records of each producer reach the destination in the order written.
PerProducerOrder ==
    \A p \in Producers :
        LET ks == NumbersOf(p, Delivered \o Queued) IN
            /\ StrictlyIncreasing(ks)
            /\ \A i \in 1..Len(ks) : ks[i] \in 1..producers[p].sent
            /\ StrictlyIncreasing(NumbersOf(p, Delivered))

\* A step that changes a file or a stream after the sink is resolved is the
\* worker writing the head of its queue; no producer moves in that step.
OnlyWorkerWrites ==
    (calls # <<>> /\ <<files, stdout, stderr>>' # <<files, stdout, stderr>>) =>
        /\ UNCHANGED <<producers, writer, stdout, stderr>>
        /\ \E k \in 1..Len(workers) :
              /\ workers[k].queue # <<>>
              /\ workers' = [workers EXCEPT ![k].queue = Tail(@)]
              /\ files' = [files EXCEPT ![workers[k].dest].data = @ \o Head(workers[k].queue)]

(* C12: with several producers writing concurrently, under every
   interleaving each producer's records reach the destination in the order
   that producer wrote them, and the destination is written only by the one
   worker thread, never by a producer. *)
C12_PerProducerOrderOneWriter ==
    /\ [](PerProducerOrder /\ Len(workers) <= 1)
    /\ [][OnlyWorkerWrites]_vars

C12_Witness ==
    /\ \E i, j, k \in 1..Len(Delivered) :
          /\ i < j /\ j < k
          /\ Delivered[i].p = "p1" /\ Delivered[j].p = "p2" /\ Delivered[k].p = "p1"
    /\ \A p \in Producers : Len(NumbersOf(p, Delivered)) >= 2

\* The capacity the queue must have: buffer_length, or the builder's default.
QueueBound ==
    IF IsSome(Resolved.non_blocking.v.buffer_length)
    THEN ConfiguredCapacity
    ELSE DefaultBufferedLinesLimit

(* C15: the queue is bounded: the number of queued records never exceeds
   buffer_length when it is configured, and never exceeds the builder's fixed
   default capacity when it is not, whatever the backpressure policy. *)
C15_QueueBounded ==
    \A k \in 1..Len(workers) :
        /\ workers[k].cap = QueueBound
        /\ Len(workers[k].queue) <= QueueBound

C15_Witness ==
    /\ workers # <<>>
    /\ IsSome(Resolved.non_blocking.v.buffer_length)
    /\ ConfiguredCapacity = 2
    /\ Len(workers[1].queue) = 2
    /\ \E p \in Producers : producers[p].blocked

---------------------------------------------------------------------------
(* Claims about the Guard, under FairGuardSpec *)

AsyncCalls ==
    {i \in 1..Len(calls) : calls[i].tag = "Ok" /\ calls[i].sink.tag = "NonBlocking"}

\* Once the Guard of an asynchronous sink is dropped, its worker has written
\* and flushed every record accepted before the drop, and has stopped.
DroppedMeansDrained ==
    \A i \in AsyncCalls :
        guards[i].state = "dropped" =>
            LET w == workers[calls[i].sink.worker] IN
                /\ w.queue = <<>>
                /\ ~w.running
                /\ w.flushed = Len(files[w.dest].data)
                /\ Len(files[w.dest].data) + w.dropped = TotalSent
                /\ Len(files[w.dest].data) >= guards[i].pending
                /\ \A p \in Producers : StrictlyIncreasing(NumbersOf(p, files[w.dest].data))
                /\ ~w.lossy => \A p \in Producers :
                      NumbersOf(p, files[w.dest].data) = UpTo(producers[p].sent)

(* C13: dropping the Guard of an asynchronous sink returns only after every
   record enqueued before the drop has been written to the destination, the
   destination flushed and the worker stopped, under Block and under Drop
   alike; and the drop does return. *)
C13_GuardDropDrains ==
    /\ []DroppedMeansDrained
    /\ [][\A i \in AsyncCalls :
            (guards[i].state # "dropped" /\ guards'[i].state = "dropped") =>
                (guards[i].state = "dropping" /\ ~workers[calls[i].sink.worker].running)]_vars
    /\ ((guards # <<>> /\ guards[1].state = "dropping") ~>
            (guards # <<>> /\ guards[1].state = "dropped"))

C13_Witness ==
    /\ AsyncCalls = {1}
    /\ guards[1].state = "dropped"
    /\ guards[1].pending >= 2
    /\ DropConfigured
    /\ Dropped > 0

\* Every worker is owned by exactly one Guard.
OneGuardPerWorker ==
    \A k \in 1..Len(workers) :
        Cardinality({i \in 1..Len(calls) :
            calls[i].guard = Some([tag |-> "NonBlocking", worker |-> k])}) = 1

\* The worker runs while its Guard is held and has stopped once it is dropped.
WorkerLivesWithGuard ==
    \A i \in GuardedCalls :
        /\ guards[i].state = "held" => workers[GuardWorker(i)].running
        /\ guards[i].state = "dropped" => ~workers[GuardWorker(i)].running

\* A worker stops only while its Guard is being dropped, and never restarts.
StoppedOnlyByGuard ==
    \A k \in 1..Len(workers) :
        /\ (workers[k].running /\ ~workers'[k].running) =>
              \E i \in GuardedCalls : GuardWorker(i) = k /\ guards[i].state = "dropping"
        /\ ~workers[k].running => ~workers'[k].running

\* A Guard is dropped once: held, then dropping, then dropped.
GuardDroppedOnce ==
    \A i \in 1..Len(guards) :
        guards'[i].state # guards[i].state =>
            <<guards[i].state, guards'[i].state>> \in
                {<<"held", "dropping">>, <<"held", "dropped">>, <<"dropping", "dropped">>}

(* C14: the Guard is the single authority that stops the worker: every worker
   is owned by exactly one Guard, it is stopped once and only by the drop of
   that Guard, and in no reachable state is a worker running after its Guard
   was dropped. *)
C14_GuardStopsWorker ==
    /\ [](OneGuardPerWorker /\ WorkerLivesWithGuard)
    /\ [][StoppedOnlyByGuard /\ GuardDroppedOnce]_vars

C14_Witness ==
    /\ GuardedCalls = {1}
    /\ guards[1].state = "dropped"
    /\ ~workers[1].running
    /\ BlockConfigured
    /\ Len(Delivered) = TotalSent
    /\ TotalSent > 0

---------------------------------------------------------------------------
(* Claims about the Rolling sink, under RollSpec *)

ConfiguredRoll == UnwrapOr(config.writer.v.roll, RollDefault)

ConfiguredRotation == UnwrapOr(ConfiguredRoll.rotation, RotationDefault)

\* The time bucket of minute t under the configured rotation.
ConfiguredBucket(t) ==
    CASE ConfiguredRotation = "Minutely" -> t
      [] ConfiguredRotation = "Hourly" -> t \div 60
      [] ConfiguredRotation = "Daily" -> t \div 1440
      [] ConfiguredRotation = "Never" -> 0

Logs == IF appender = NoAppender THEN <<>> ELSE appender.logs

\* No file holds records of two buckets, and no two files hold the same bucket.
OneBucketPerFile ==
    /\ \A i \in 1..Len(Logs) : \A j, k \in 1..Len(Logs[i].data) :
          ConfiguredBucket(Logs[i].data[j].t) = ConfiguredBucket(Logs[i].data[k].t)
    /\ \A i, j \in 1..Len(Logs) :
          i < j =>
              /\ Logs[i].name # Logs[j].name
              /\ \A k \in 1..Len(Logs[i].data), l \in 1..Len(Logs[j].data) :
                    ConfiguredBucket(Logs[i].data[k].t) < ConfiguredBucket(Logs[j].data[l].t)

\* The active file is the newest one and was opened in the current bucket
\* as of the last write.
ActiveIsNewest ==
    appender # NoAppender =>
        /\ Logs # <<>>
        /\ appender.active = Logs[Len(Logs)].name
        /\ \A k \in 1..Len(Logs[Len(Logs)].data) :
              ConfiguredBucket(Logs[Len(Logs)].data[k].t) = ConfiguredBucket(appender.opened)

RollingWriteStep == appender # NoAppender /\ nops' = nops + 1

\* A write lands in the file of the current bucket; it opens a new file first
\* exactly when the bucket differs from the active file's, leaving the bytes
\* already written where they are.
WriteSwitchesBucketFirst ==
    RollingWriteStep =>
        LET old == appender
            new == appender'
            switch == ConfiguredBucket(clock) # ConfiguredBucket(old.opened)
            r == [t |-> clock, n |-> nops + 1]
            top == new.logs[Len(new.logs)]
        IN  /\ new.active = top.name
            /\ ConfiguredBucket(new.opened) = ConfiguredBucket(clock)
            /\ top.data # <<>> /\ top.data[Len(top.data)] = r
            /\ switch <=> new.active # old.active
            /\ switch <=> new.created = old.created + 1
            /\ ~switch => new.created = old.created
            /\ switch => top.data = <<r>>
            /\ ~switch => /\ Len(new.logs) = Len(old.logs)
                           /\ top.data = old.logs[Len(old.logs)].data \o <<r>>
            /\ \A i \in 1..Len(new.logs) - 1 :
                  \E j \in 1..Len(old.logs) : new.logs[i] = old.logs[j]

\* Time passing alone opens no file.
OnlyWritesOpenFiles ==
    (appender # NoAppender /\ nops' = nops) => appender' = appender

(* C16: the Rolling sink never writes records of two time buckets into one
   file: every write lands in the file of the bucket of the current time, a
   write whose bucket differs from the active file's opens that bucket's file
   before its bytes are written, and a new file appears only at such a write,
   that is, only after a bucket boundary was crossed. *)
C16_OneBucketPerFile ==
    /\ [](OneBucketPerFile /\ ActiveIsNewest)
    /\ [][WriteSwitchesBucketFirst /\ OnlyWritesOpenFiles]_vars

C16_Witness ==
    /\ ConfiguredRotation = "Hourly"
    /\ Len(Logs) = 2
    /\ Len(Logs[1].data) = 2
    /\ Logs[1].data[1].t # Logs[1].data[2].t
    /\ Len(Logs[2].data) = 2

ConfiguredLimit == ConfiguredRoll.limit

\* The buckets that have records in the log files.
BucketsOnDisk ==
    UNION {{ConfiguredBucket(Logs[i].data[k].t) : k \in 1..Len(Logs[i].data)} :
              i \in 1..Len(Logs)}

\* One file per bucket written, and the file opened at build if still empty;
\* files deleted so far are those created and no longer there.
OneFilePerBucket ==
    appender # NoAppender =>
        /\ Len(Logs) = Cardinality(BucketsOnDisk)
                        + (IF Logs[1].data = <<>> THEN 1 ELSE 0)
        /\ \A i \in 2..Len(Logs) : Logs[i].data # <<>>
        /\ ConfiguredLimit = NoneV => Len(Logs) = appender.created
        /\ Len(Logs) <= appender.created

WithinLimit == IsSome(ConfiguredLimit) => Len(Logs) <= ConfiguredLimit.v

\* A rotation keeps the newest files: what is deleted is older than
\* everything kept, and nothing is deleted while the limit allows it.
DeletesOldest ==
    (RollingWriteStep /\ appender'.created # appender.created) =>
        LET old == appender.logs
            new == appender'.logs
        IN  /\ \E n \in 0..Len(old) :
                  SubSeq(new, 1, Len(new) - 1) = SubSeq(old, n + 1, Len(old))
            /\ Len(new) = IF IsSome(ConfiguredLimit)
                           THEN Min(Len(old) + 1, ConfiguredLimit.v)
                           ELSE Len(old) + 1

(* C17: rolling retention. Under Minutely rotation every minute boundary
   crossed and then written to creates exactly one new file, so three
   boundaries create three distinct files, each holding only the records of
   its minute; with a limit the number of log files never exceeds it after
   any rotation, and the file a rotation deletes is always the oldest. *)
C17_RetentionKeepsNewest ==
    /\ [](OneBucketPerFile /\ OneFilePerBucket /\ WithinLimit)
    /\ [][DeletesOldest]_vars

C17_Witness ==
    /\ ConfiguredRotation = "Minutely"
    /\ ConfiguredLimit = Some(2)
    /\ appender # NoAppender
    /\ appender.created = 4
    /\ Len(Logs) = 2
    /\ \A i \in 1..2 : Len(Logs[i].data) = 1
    /\ Logs[1].data[1].t + 1 = Logs[2].data[1].t

---------------------------------------------------------------------------
(* Claims about the formatters, under FormatSpec *)

Built == components # NoComponents

Layouts == {"Full", "Compact", "Pretty", "Json"}

TimePolicies == {"None", "Local", "Utc", "System", "Uptime"}

ConfiguredLayout == IF IsSome(format.formatter) THEN format.formatter.v.tag ELSE "Full"

ConfiguredTimePolicy == IF IsSome(format.timer) THEN format.timer.v.kind ELSE "System"

\* The Format with every toggle absent.
Untoggled(f) ==
    [f EXCEPT !.ansi = NoneV, !.target = NoneV, !.level = NoneV, !.thread_ids = NoneV,
              !.thread_names = NoneV, !.file = NoneV, !.line_number = NoneV]

(* C18: the layout and time dispatch is closed and exhaustive: every Format
   yields exactly one of the four layouts and one of the five time policies,
   the configured ones, Full when no formatter is given and System when no
   timer is given; the toggles change neither the layout nor the time
   policy. *)
C18_LayoutAndTimeDispatch ==
    Built =>
        LET e == components.fmt_event
            u == FormatEventInner_from(Untoggled(format), clock)
        IN  /\ e.layout \in Layouts
            /\ e.layout = ConfiguredLayout
            /\ e.format.timer.kind \in TimePolicies
            /\ e.format.timer.kind = ConfiguredTimePolicy
            /\ e.layout = u.layout
            /\ e.format.timer = u.format.timer

C18_Witness ==
    /\ Built
    /\ format.formatter = NoneV
    /\ format.timer = NoneV
    /\ format.ansi = Some(FALSE)
    /\ components.fmt_event.layout = "Full"
    /\ components.fmt_event.format.timer.kind = "System"

\* The method that sets what a toggle configures.
MethodOf(toggle) ==
    CASE toggle = "ansi" -> "with_ansi"
      [] toggle = "target" -> "with_target"
      [] toggle = "level" -> "with_level"
      [] toggle = "thread_ids" -> "with_thread_ids"
      [] toggle = "thread_names" -> "with_thread_names"
      [] toggle = "file" -> "with_file"
      [] toggle = "line_number" -> "with_line_number"

ToggleNames == {Toggles[i] : i \in 1..Len(Toggles)}

(* C19: the toggles apply uniformly and independently: in every layout, each
   of ansi, target, level, thread_ids, thread_names, file and line_number
   given as Some(b) sets exactly its own setting to b, and given as None
   leaves that setting as the layout has it; no toggle changes another
   setting, the Json settings, the timer or the layout. *)
C19_TogglesIndependent ==
    Built =>
        LET e == components.fmt_event
            u == FormatEventInner_from(Untoggled(format), clock)
        IN  /\ \A t \in ToggleNames : e.format[MethodOf(t)] = format[t]
            /\ \A t \in ToggleNames : u.format[MethodOf(t)] = NoneV
            /\ e.layout = u.layout
            /\ DOMAIN e.format = DOMAIN u.format
            /\ \A s \in DOMAIN e.format \ {MethodOf(t) : t \in ToggleNames} :
                  e.format[s] = u.format[s]

C19_Witness ==
    /\ Built
    /\ components.fmt_event.layout = "Json"
    /\ format.ansi = NoneV
    /\ format.file = Some(TRUE)
    /\ format.line_number = Some(FALSE)
    /\ components.fmt_event.format.with_file = Some(TRUE)
    /\ components.fmt_event.format.with_line_number = Some(FALSE)
    /\ components.fmt_event.format.with_ansi = NoneV

\* The rendering a Local or Utc timer must get from its pattern.
ExpectedRendering(pattern) ==
    IF pattern = NoneV \/ pattern = Some("%+")
    THEN [tag |-> "Rfc3339"]
    ELSE [tag |-> "Custom", pattern |-> pattern.v]

(* C20: for the Local and the Utc timer alike, the RFC 3339 rendering is used
   exactly when the pattern is absent or is "%+"; any other pattern, the
   empty string included, is used verbatim. *)
C20_Rfc3339WhenAbsentOrPlus ==
    (Built /\ ConfiguredTimePolicy \in {"Local", "Utc"}) =>
        LET t == components.fmt_event.format.timer
            pattern == format.timer.v.pattern
        IN  /\ t.kind = format.timer.v.kind
            /\ t.fmt = ExpectedRendering(pattern)
            /\ t.fmt.tag = "Rfc3339" <=> (pattern = NoneV \/ pattern = Some("%+"))
            /\ LocalFormat(pattern) = UtcFormat(pattern)

C20_Witness ==
    /\ Built
    /\ format.timer = Some([kind |-> "Utc", pattern |-> Some("")])
    /\ components.fmt_event.format.timer = [kind |-> "Utc", fmt |-> Custom("")]

---------------------------------------------------------------------------
(* String parsers (lib.rs) *)

POk(v) == [tag |-> "Ok", v |-> v]
PErr(help) == [tag |-> "Err", help |-> help]

\* winnow: a literal matches when the input starts with it
StartsWith(s, lit) == Len(s) >= Len(lit) /\ SubSeq(s, 1, Len(lit)) = lit

\* winnow: the input left after a literal (what `rest` then takes whole)
After(s, lit) == SubSeq(s, Len(lit) + 1, Len(s))

\* winnow Parser::parse: the parsed value only when no input is left
Complete(s, lit, v, help) == IF After(s, lit) = "" THEN POk(v) ELSE PErr(help)

\* strum!: per enum its PARSE_HELP and its `Variant = "string"` arms, in order
Strum ==
    [Level |->
        [help |-> "<off|error|warn|info|debug|trace>",
         arms |-> <<<<"Off", "off">>, <<"Error", "error">>, <<"Warn", "warn">>,
                    <<"Info", "info">>, <<"Debug", "debug">>, <<"Trace", "trace">>>>],
     Rotation |->
        [help |-> "<minutely|hourly|daily|never>",
         arms |-> <<<<"Minutely", "minutely">>, <<"Hourly", "hourly">>,
                    <<"Daily", "daily">>, <<"Never", "never">>>>],
     BackpressureBehaviour |->
        [help |-> "<drop|block>",
         arms |-> <<<<"Drop", "drop">>, <<"Block", "block">>>>],
     FileOpenBehaviour |->
        [help |-> "<truncate|append>",
         arms |-> <<<<"Truncate", "truncate">>, <<"Append", "append">>>>]]

Variants(enum) == {Strum[enum].arms[i][1] : i \in 1..Len(Strum[enum].arms)}

\* strum!: as_str, match *self { Self::Variant => "string", ... }
as_str(enum, v) ==
    LET arms == Strum[enum].arms
        i == CHOOSE k \in 1..Len(arms) : arms[k][1] = v
    IN  arms[i][2]

\* strum!: from_str, match s { "string" => Ok(Self::Variant), ..., _ => Err(..) }
from_str(enum, s) ==
    LET arms == Strum[enum].arms
        hits == {k \in 1..Len(arms) : arms[k][2] = s}
    IN  IF hits = {} THEN PErr(Strum[enum].help)
        ELSE POk(arms[CHOOSE k \in hits : \A j \in hits : k <= j][1])

\* PathBuf::from(&str) as the file system sees it: directory and file name
PathBuf_from(it) ==
    LET slashes == {i \in 1..Len(it) : SubSeq(it, i, i) = "/"}
        cut == IF slashes = {} THEN 0
                ELSE CHOOSE i \in slashes : \A j \in slashes : j <= i
    IN  IF cut = 0 THEN Path("", it)
        ELSE Path(SubSeq(it, 1, cut - 1), SubSeq(it, cut + 1, Len(it)))

\* impl Default for File (derived): empty path, Truncate, no non_blocking
File_default ==
    [tag |-> "File", path |-> EmptyPath, behaviour |-> "Truncate", non_blocking |-> NoneV]

\* impl Default for Rolling (derived)
Rolling_default ==
    [tag |-> "Rolling", directory |-> "", roll |-> NoneV, non_blocking |-> NoneV]

Writer_PARSE_HELP == "<null | stdout | stderr | file=FILE | rolling=DIRECTORY>"

\* impl FromStr for Writer
Writer_from_str(s) ==
    LET help == Writer_PARSE_HELP IN
    IF StartsWith(s, "null") THEN Complete(s, "null", [tag |-> "Null"], help)
    ELSE IF StartsWith(s, "none") THEN Complete(s, "none", [tag |-> "Null"], help)
    ELSE IF StartsWith(s, "stdout") THEN Complete(s, "stdout", [tag |-> "Stdout"], help)
    ELSE IF StartsWith(s, "stderr") THEN Complete(s, "stderr", [tag |-> "Stderr"], help)
    ELSE IF StartsWith(s, "file=") /\ After(s, "file=") # ""
         THEN POk([File_default EXCEPT !.path = PathBuf_from(After(s, "file="))])
    ELSE IF StartsWith(s, "rolling=")
         THEN POk([Rolling_default EXCEPT !.directory = After(s, "rolling=")])
    ELSE PErr(help)

Timer_PARSE_HELP == "<none | local[=FORMAT] | utc[=FORMAT] | system | uptime>"

\* The bare keywords tried before their "=" forms.
Timer_from_str_bare_first(s) ==
    LET help == Timer_PARSE_HELP IN
    IF StartsWith(s, "none") THEN Complete(s, "none", [kind |-> "None"], help)
    ELSE IF StartsWith(s, "local")
         THEN Complete(s, "local", [kind |-> "Local", pattern |-> NoneV], help)
    ELSE IF StartsWith(s, "local=")
         THEN POk([kind |-> "Local", pattern |-> Some(After(s, "local="))])
    ELSE IF StartsWith(s, "utc")
         THEN Complete(s, "utc", [kind |-> "Utc", pattern |-> NoneV], help)
    ELSE IF StartsWith(s, "utc=")
         THEN POk([kind |-> "Utc", pattern |-> Some(After(s, "utc="))])
    ELSE IF StartsWith(s, "system") THEN Complete(s, "system", [kind |-> "System"], help)
    ELSE IF StartsWith(s, "uptime") THEN Complete(s, "uptime", [kind |-> "Uptime"], help)
    ELSE PErr(help)

\* impl FromStr for Timer
Timer_from_str(s) ==
    LET help == Timer_PARSE_HELP IN
    IF StartsWith(s, "none") THEN Complete(s, "none", [kind |-> "None"], help)
    ELSE IF StartsWith(s, "local=")
         THEN POk([kind |-> "Local", pattern |-> Some(After(s, "local="))])
    ELSE IF StartsWith(s, "local")
         THEN Complete(s, "local", [kind |-> "Local", pattern |-> NoneV], help)
    ELSE IF StartsWith(s, "utc=")
         THEN POk([kind |-> "Utc", pattern |-> Some(After(s, "utc="))])
    ELSE IF StartsWith(s, "utc")
         THEN Complete(s, "utc", [kind |-> "Utc", pattern |-> NoneV], help)
    ELSE IF StartsWith(s, "system") THEN Complete(s, "system", [kind |-> "System"], help)
    ELSE IF StartsWith(s, "uptime") THEN Complete(s, "uptime", [kind |-> "Uptime"], help)
    ELSE PErr(help)

---------------------------------------------------------------------------
(* Parsing a configuration string, then resolving the sink it names *)

Enums == {"Level", "Rotation", "BackpressureBehaviour", "FileOpenBehaviour"}

Keywords ==
    UNION {{as_str(e, v) : v \in Variants(e)} : e \in Enums}
    \cup {"null", "none", "stdout", "stderr", "file", "rolling",
          "local", "utc", "system", "uptime"}

Tails == {"", "x", "=", "=%T"}

Inputs ==
    {k \o t : k \in Keywords, t \in Tails}
    \cup {"", "Info", "file=logs/new.log", "file=ro/app.log", "file=logs/old.log",
          "rolling=logs", "rolling=ro/sub", "local=%+"}

ParseInit ==
    /\ config = [writer |-> NoneV]
    /\ NothingResolved
    /\ clock = 0
    /\ appender = NoAppender
    /\ format = NoFormat
    /\ components = NoComponents
    /\ rendered = <<>>
    /\ input \in Inputs
    /\ parsed = NoParse
    /\ filter = FilterDefault
    /\ env_filter = NoEnvFilter

Parsed(parser, res) ==
    /\ parsed = NoParse
    /\ parsed' = [parser |-> parser, res |-> res]
    /\ UNCHANGED <<config, dirs, files, stdout, stderr, arcs, workers, calls, writer,
                   nops, last, results, producers, guards, rollingVars, formatVars,
                   input, filter, env_filter>>

\* <Level | Rotation | BackpressureBehaviour | FileOpenBehaviour>::from_str(input)
ParseEnum == \E e \in Enums : Parsed(e, from_str(e, input))

\* Writer::from_str(input)
ParseWriter == Parsed("Writer", Writer_from_str(input))

\* Timer::from_str(input)
ParseTimer == Parsed("Timer", Timer_from_str(input))

\* The sink names a file or directory of the file system above.
InFileSystem(w) ==
    CASE w.tag = "File" -> w.path \in FilePaths
      [] w.tag = "Rolling" -> w.directory \in DirNames
      [] OTHER -> TRUE

Configured(w) ==
    /\ config.writer = NoneV
    /\ config' = [writer |-> Some(w)]
    /\ UNCHANGED <<dirs, files, stdout, stderr, arcs, workers, calls, writer, nops,
                   last, results, producers, guards, rollingVars, formatVars, parseVars>>

\* Subscriber { writer: Some(s.parse()?), .. }
ConfigureParsed ==
    /\ parsed # NoParse
    /\ parsed.parser = "Writer"
    /\ parsed.res.tag = "Ok"
    /\ InFileSystem(parsed.res.v)
    /\ Configured(parsed.res.v)

\* Subscriber { writer: Some(Writer::File(File::default())), .. }
ConfigureFileDefault == Configured(File_default)

ParseNext ==
    \/ ParseEnum
    \/ ParseWriter
    \/ ParseTimer
    \/ ConfigureParsed
    \/ ConfigureFileDefault
    \/ ResolveDeferred
    \/ ResolveImmediate

ParseSpec == ParseInit /\ [][ParseNext]_vars

\* A File sink with an empty path went through resolution's file-open step.
EmptyPathOpened ==
    /\ calls # <<>>
    /\ IsSome(config.writer)
    /\ config.writer.v.tag = "File"
    /\ config.writer.v.path = EmptyPath

(* C21: a sink spec with an empty file path is rejected before resolution:
   Writer::from_str("file=") is a parse error, and no File spec with an empty
   path is ever passed to the file-open step of resolution. *)
C21_EmptyPathRejectedBeforeResolution ==
    /\ (parsed # NoParse /\ parsed.parser = "Writer" /\ input = "file=")
            => parsed.res = PErr(Writer_PARSE_HELP)
    /\ ~EmptyPathOpened

\* The half of C21 that holds: the parser rejects "file=".
C21_ParserRejectsEmptyPath ==
    (parsed # NoParse /\ parsed.parser = "Writer" /\ input = "file=")
        => parsed.res = PErr(Writer_PARSE_HELP)

---------------------------------------------------------------------------
(* The variant of a resolved sink *)

SinkVariants == {"Null", "Stdout", "Stderr", "File", "Rolling", "NonBlocking", "Deferred"}

\* Every sink resolved so far keeps its variant over the step.
SinksKeepVariant ==
    \A i \in 1..Len(calls) :
        /\ calls[i].tag = "Ok" <=> calls'[i].tag = "Ok"
        /\ calls[i].tag = "Ok" => calls'[i].sink.tag = calls[i].sink.tag

\* The writer held after the step is of the variant of the sink it came from.
WriterOfSinkVariant ==
    writer' # NoWriter =>
        /\ calls'[writer'.call].tag = "Ok"
        /\ writer'.inner.tag = calls'[writer'.call].sink.tag
        /\ writer'.inner.tag \in SinkVariants

(* C22: a resolved sink is one of Null, Stdout, Stderr, File, Rolling,
   NonBlocking, Deferred, fixed at construction: no make_writer, write or
   flush changes the variant, and every writer handed out is of the same
   variant as its sink. *)
C22_SinkVariantFixed ==
    [][SinksKeepVariant /\ WriterOfSinkVariant]_vars

C22_Witness ==
    /\ writer # NoWriter
    /\ writer.inner.tag = "Stderr"
    /\ calls[writer.call].sink.tag = "Stderr"
    /\ nops = MaxOps
    /\ last.op = "flush"

---------------------------------------------------------------------------
(* Which operations can suspend their caller, under FairQueueSpec *)

QueueFull == workers # <<>> /\ Len(workers[1].queue) >= workers[1].cap

\* A write through the held writer would return without waiting.
EnqueueReturns == writer # NoWriter /\ ~WouldBlock(writer.inner, Env)

\* A caller becomes suspended over the step only in a write under Block that
\* finds the queue full; no other step changes who is suspended.
OnlyBlockEnqueueSuspends ==
    \A p \in Producers :
        (~producers[p].blocked /\ producers'[p].blocked) =>
            /\ BlockConfigured
            /\ QueueFull
            /\ writer # NoWriter
            /\ UNCHANGED <<workers, files, calls, writer>>

\* A write under Drop that finds the queue full returns at once: the record is
\* counted as sent and dropped, the queue is as it was.
DropEnqueueOnFullReturns ==
    \A p \in Producers :
        (DropConfigured /\ QueueFull /\ producers'[p].sent = producers[p].sent + 1) =>
            /\ ~producers'[p].blocked
            /\ workers'[1].queue = workers[1].queue
            /\ workers'[1].dropped = workers[1].dropped + 1

(* C23: the enqueue under Block is the only operation that can suspend its
   caller; under Drop an enqueue on a full queue returns immediately; under
   either policy an enqueue on a queue that is not full never waits. *)
C23_OnlyBlockEnqueueSuspends ==
    /\ [][OnlyBlockEnqueueSuspends /\ DropEnqueueOnFullReturns]_vars
    /\ []((writer # NoWriter /\ ~BlockConfigured) =>
            (EnqueueReturns /\ \A p \in Producers : ~producers[p].blocked))
    /\ []((writer # NoWriter /\ ~QueueFull) => EnqueueReturns)

C23_Witness ==
    /\ DropConfigured
    /\ QueueFull
    /\ EnqueueReturns
    /\ Dropped > 0
    /\ last # NoOp /\ last.op = "write"
    /\ \A p \in Producers : producers[p].sent > 0 /\ ~producers[p].blocked

\* Under Block, a caller suspended on the full queue.
C23_Suspended ==
    /\ BlockConfigured
    /\ QueueFull
    /\ \E p \in Producers : producers[p].blocked

---------------------------------------------------------------------------
(* Time stamps: the pipeline is assembled some time after the process
   started, and events are stamped after that *)

MaxStamps == 3

TimeFormats ==
    {MkFormat([i \in 1..Len(Toggles) |-> NoneV], fm, tm) :
        fm \in {NoneV, Some([tag |-> "Json", json |-> NoneV])},
        tm \in {NoneV, Some([kind |-> "Uptime"]), Some([kind |-> "None"])}}

TimeInit ==
    /\ config = [writer |-> NoneV]
    /\ NothingResolved
    /\ clock \in StartTimes
    /\ appender = NoAppender
    /\ format \in TimeFormats
    /\ components = NoComponents
    /\ rendered = <<>>
    /\ NothingParsed

\* tracing_subscriber Uptime::format_time: the time elapsed since the epoch
Uptime_format_time(epoch, now) == now - epoch

\* time.rs FormatTime for FormatTimeInner: format_time, called at minute now
FormatTimeInner_format_time(self, now) ==
    CASE self.kind = "None" -> [kind |-> "None"]
      [] self.kind = "Local" -> [kind |-> "Local", fmt |-> self.fmt, at |-> now]
      [] self.kind = "Utc" -> [kind |-> "Utc", fmt |-> self.fmt, at |-> now]
      [] self.kind = "System" -> [kind |-> "System", at |-> now]
      [] self.kind = "Uptime" ->
            [kind |-> "Uptime", elapsed |-> Uptime_format_time(self.epoch, now)]

\* An event is formatted: its time stamp is written by the timer.
FormatTimeOp ==
    /\ components # NoComponents
    /\ Len(rendered) < MaxStamps
    /\ rendered' = Append(rendered,
            [at |-> clock,
             out |-> FormatTimeInner_format_time(components.fmt_event.format.timer, clock)])
    /\ UNCHANGED <<config, dirs, files, stdout, stderr, arcs, workers, calls, writer,
                   nops, last, results, producers, guards, rollingVars, format,
                   components, parseVars>>

TimeNext ==
    \/ Tick
    \/ IntoComponents
    \/ FormatTimeOp

TimeSpec == TimeInit /\ [][TimeNext]_vars

UptimeConfigured == format # NoFormat /\ format.timer = Some([kind |-> "Uptime"])

\* The instant the process started (the clock of the initial state).
ProcessStart == ProcessStartAt(clock)

UptimeEpoch == components.fmt_event.format.timer.epoch

\* Every stamp written so far is the time from the zero point to the stamp.
StampsMeasureFromEpoch ==
    \A i \in 1..Len(rendered) :
        /\ rendered[i].out.kind = "Uptime"
        /\ rendered[i].out.elapsed = rendered[i].at - UptimeEpoch
        /\ rendered[i].out.elapsed >= 0
        /\ \A j \in 1..Len(rendered) :
              i < j => rendered[i].out.elapsed <= rendered[j].out.elapsed

\* The zero point is the instant of the step that builds the time source, and
\* no later step moves it.
EpochCapturedOnce ==
    /\ (components = NoComponents /\ components' # NoComponents)
            => components'.fmt_event.format.timer.epoch = clock
    /\ components # NoComponents => components' = components

(* C24: Uptime measures the time elapsed since the time source was
   constructed (at pipeline assembly), not since the process started: the
   zero point is captured once and never changes, the value rendered at t is
   t minus the construction time, and rendered values never decrease. *)
C24_UptimeFromConstruction ==
    /\ []((UptimeConfigured /\ Built) =>
            /\ components.fmt_event.format.timer.kind = "Uptime"
            /\ ProcessStart <= UptimeEpoch /\ UptimeEpoch <= clock
            /\ StampsMeasureFromEpoch)
    /\ [][UptimeConfigured => EpochCapturedOnce]_vars

C24_Witness ==
    /\ UptimeConfigured
    /\ Built
    /\ UptimeEpoch = ProcessStart + 2
    /\ Len(rendered) = MaxStamps
    /\ rendered[1].out.elapsed = 0
    /\ rendered[MaxStamps].out.elapsed = 2
    /\ rendered[MaxStamps].at - ProcessStart = 4

---------------------------------------------------------------------------
(* The field formatter and the event formatter of one pipeline *)

\* The field formatter that belongs to a layout.
FieldsOfLayout(layout) ==
    CASE layout \in {"Full", "Compact"} -> "Default"
      [] layout = "Pretty" -> "Pretty"
      [] layout = "Json" -> "Json"

(* C25: the field formatter and the event formatter that into_components
   returns belong to the same layout: Full and Compact come with the default
   fields, Pretty with the pretty fields, Json (whatever its sub-toggles) with
   the JSON fields; when no formatter is configured both are those of Full. *)
C25_FieldsMatchEventLayout ==
    Built =>
        /\ components.fmt_fields.tag = FieldsOfLayout(components.fmt_event.layout)
        /\ components.fmt_event.layout = ConfiguredLayout
        /\ format.formatter = NoneV =>
              (components.fmt_event.layout = "Full"
                    /\ components.fmt_fields.tag = "Default")

C25_Witness ==
    /\ Built
    /\ IsSome(format.formatter)
    /\ format.formatter.v.tag = "Json"
    /\ IsSome(format.formatter.v.json)
    /\ format.formatter.v.json.v.flatten_event = Some(TRUE)
    /\ components.fmt_event.layout = "Json"
    /\ components.fmt_fields.tag = "Json"

---------------------------------------------------------------------------
(* Filter directives (lib.rs) *)

MaxDirectives == 2

DirectiveInputs ==
    {"info", "off", "my_crate", "my_crate=debug", "my_crate[span]=trace",
     "my_crate=loud", "a=b=c"}

\* tracing_subscriber's Directive::from_str, for directives without field
\* matches: a level, a target, or target=level with the level after the last "=".
LibDirective_from_str(s) ==
    LET eqs == {i \in 1..Len(s) : SubSeq(s, i, i) = "="}
        cut == IF eqs = {} THEN 0 ELSE CHOOSE i \in eqs : \A j \in eqs : j <= i
        level == from_str("Level", SubSeq(s, cut + 1, Len(s)))
    IN  IF cut = 0
        THEN IF level.tag = "Ok"
             THEN POk([target |-> NoneV, level |-> level.v])
             ELSE POk([target |-> Some(s), level |-> "Trace"])
        ELSE IF level.tag = "Ok"
             THEN POk([target |-> Some(SubSeq(s, 1, cut - 1)), level |-> level.v])
             ELSE PErr("invalid filter directive")

Panic == [tag |-> "Panic"]

\* Directive(String)
Directive(s) == [tag |-> "Directive", s |-> s]

\* Every string kept as a Directive, whether it parses or not.
Directive_from_str_unchecked(s) == POk(Directive(s))

\* impl FromStr for Directive: the string is kept only when it parses
Directive_from_str(s) ==
    LET r == LibDirective_from_str(s) IN
    IF r.tag = "Ok" THEN POk(Directive(s)) ELSE r

\* impl From<Level> for Directive: value.as_str().parse().unwrap()
Directive_from_Level(value) ==
    LET r == Directive_from_str(as_str("Level", value)) IN
    IF r.tag = "Ok" THEN r.v ELSE Panic

\* Directive::directive: self.0.parse().unwrap()
Directive_directive(self) ==
    LET r == LibDirective_from_str(self.s) IN
    IF r.tag = "Ok" THEN r.v ELSE Panic

\* directives.into_iter().fold(acc, |acc, el| acc.add_directive(el.directive()))
RECURSIVE fold(_, _)
fold(directives, acc) ==
    IF directives = <<>> \/ acc = Panic THEN acc
    ELSE LET d == Directive_directive(Head(directives)) IN
         fold(Tail(directives),
              IF d = Panic THEN Panic
              ELSE [acc EXCEPT !.directives = Append(@, d)])

\* impl From<Filter> for EnvFilter
EnvFilter_from(value) ==
    fold(value.directives,
         [tag |-> "EnvFilter", regex |-> UnwrapOr(value.regex, FALSE), directives |-> <<>>])

FilterInit ==
    /\ config = [writer |-> NoneV]
    /\ NothingResolved
    /\ clock = 0
    /\ appender = NoAppender
    /\ format = NoFormat
    /\ components = NoComponents
    /\ rendered = <<>>
    /\ input = NoInput
    /\ parsed = NoParse
    /\ filter \in {[FilterDefault EXCEPT !.regex = r] : r \in OptBool}
    /\ env_filter = NoEnvFilter

Pushed(d) ==
    /\ env_filter = NoEnvFilter
    /\ Len(filter.directives) < MaxDirectives
    /\ filter' = [filter EXCEPT !.directives = Append(@, d)]
    /\ UNCHANGED <<config, dirs, files, stdout, stderr, arcs, workers, calls, writer,
                   nops, last, results, producers, guards, rollingVars, formatVars,
                   input, parsed, env_filter>>

\* filter.directives.push(s.parse()?), or a directive deserialized from s
PushParsed ==
    \E s \in DirectiveInputs :
        /\ Directive_from_str(s).tag = "Ok"
        /\ Pushed(Directive_from_str(s).v)

\* filter.directives.push(Directive::from(level))
PushLevel == \E lv \in Variants("Level") : Pushed(Directive_from_Level(lv))

\* EnvFilter::from(filter)
Convert ==
    /\ env_filter = NoEnvFilter
    /\ env_filter' = EnvFilter_from(filter)
    /\ UNCHANGED <<config, dirs, files, stdout, stderr, arcs, workers, calls, writer,
                   nops, last, results, producers, guards, rollingVars, formatVars,
                   input, parsed, filter>>

FilterNext ==
    \/ PushParsed
    \/ PushLevel
    \/ Convert

FilterSpec == FilterInit /\ [][FilterNext]_vars

\* Every Directive of the filter holds a string that parses.
DirectivesParse ==
    \A i \in 1..Len(filter.directives) :
        /\ filter.directives[i] # Panic
        /\ LibDirective_from_str(filter.directives[i].s).tag = "Ok"

\* The conversion did not panic and added the filter's directives in list order.
ConvertedInOrder ==
    /\ env_filter # Panic
    /\ env_filter.regex = UnwrapOr(filter.regex, FALSE)
    /\ Len(env_filter.directives) = Len(filter.directives)
    /\ \A i \in 1..Len(filter.directives) :
          env_filter.directives[i] = LibDirective_from_str(filter.directives[i].s).v

(* C26: every Directive holds a string that parses as a filter directive
   (it is created only by FromStr, by deserialization through FromStr, or from
   a Level), so converting any Filter into an EnvFilter never panics and adds
   the directives in list order. *)
C26_DirectivesAlwaysParse ==
    /\ DirectivesParse
    /\ env_filter # NoEnvFilter => ConvertedInOrder

C26_Witness ==
    /\ env_filter # NoEnvFilter
    /\ env_filter # Panic
    /\ Len(filter.directives) = MaxDirectives
    /\ filter.directives[1] = Directive("my_crate=debug")
    /\ filter.directives[MaxDirectives] = Directive("warn")
    /\ env_filter.directives[1] = [target |-> Some("my_crate"), level |-> "Debug"]
    /\ env_filter.directives[MaxDirectives] = [target |-> NoneV, level |-> "Warn"]

---------------------------------------------------------------------------
(* The grammar each parser must accept, under ParseSpec *)

ParsedBy(parser) == parsed # NoParse /\ parsed.parser = parser

\* What a keyword enum's grammar gives for a string: the variant whose
\* as_str is the whole string, an error for any other string.
EnumGrammar(e, s) ==
    LET vs == {v \in Variants(e) : as_str(e, v) = s} IN
    IF vs = {} THEN PErr(Strum[e].help) ELSE POk(CHOOSE v \in vs : TRUE)

\* null, none, stdout, stderr, file=<non-empty path>, rolling=<directory>
WriterGrammar(s) ==
    CASE s \in {"null", "none"} -> POk([tag |-> "Null"])
      [] s = "stdout" -> POk([tag |-> "Stdout"])
      [] s = "stderr" -> POk([tag |-> "Stderr"])
      [] StartsWith(s, "file=") /\ Len(s) > Len("file=") ->
            POk([tag |-> "File", path |-> PathBuf_from(After(s, "file=")),
                 behaviour |-> "Truncate", non_blocking |-> NoneV])
      [] StartsWith(s, "rolling=") ->
            POk([tag |-> "Rolling", directory |-> After(s, "rolling="),
                 roll |-> NoneV, non_blocking |-> NoneV])
      [] OTHER -> PErr(Writer_PARSE_HELP)

\* none, local, local=<format>, utc, utc=<format>, system, uptime
TimerGrammar(s) ==
    CASE s = "none" -> POk([kind |-> "None"])
      [] s = "local" -> POk([kind |-> "Local", pattern |-> NoneV])
      [] StartsWith(s, "local=") ->
            POk([kind |-> "Local", pattern |-> Some(After(s, "local="))])
      [] s = "utc" -> POk([kind |-> "Utc", pattern |-> NoneV])
      [] StartsWith(s, "utc=") ->
            POk([kind |-> "Utc", pattern |-> Some(After(s, "utc="))])
      [] s = "system" -> POk([kind |-> "System"])
      [] s = "uptime" -> POk([kind |-> "Uptime"])
      [] OTHER -> PErr(Timer_PARSE_HELP)

\* from_str(as_str(v)) = v for every variant of the four keyword enums.
RoundTrip ==
    \A e \in Enums : \A v \in Variants(e) : from_str(e, as_str(e, v)) = POk(v)

(* C27: the string parsers accept exactly their grammar: for Level, Rotation,
   BackpressureBehaviour and FileOpenBehaviour from_str(as_str(v)) = v for
   every variant and every other string is an error; Writer::from_str accepts
   exactly null, none, stdout, stderr, file=<non-empty path> and
   rolling=<directory>; Timer::from_str accepts exactly none, local,
   local=<format>, utc, utc=<format>, system and uptime, and trailing
   characters after a bare keyword are rejected. *)
C27_ParsersAcceptExactlyGrammar ==
    /\ RoundTrip
    /\ \A e \in Enums : ParsedBy(e) => parsed.res = EnumGrammar(e, input)
    /\ ParsedBy("Writer") => parsed.res = WriterGrammar(input)
    /\ ParsedBy("Timer") => parsed.res = TimerGrammar(input)

C27_Witness ==
    /\ ParsedBy("Timer")
    /\ input = "local=%T"
    /\ parsed.res = POk([kind |-> "Local", pattern |-> Some("%T")])

\* Trailing characters after a bare keyword: an error.
C27_TrailingRejected ==
    /\ ParsedBy("Timer")
    /\ input = "uptimex"
    /\ parsed.res = PErr(Timer_PARSE_HELP)

====
